---- MODULE Spec2Model ----
(***************************************************************************)
(* A model of octopus-cli's core: the routing table (proxy.ConfigManager), *)
(* the proxy listener's request handler (proxy.Server) and the service     *)
(* lifecycle (process.Manager, cmd.ServiceManager, runDaemon).             *)
(*                                                                         *)
(* Spec      the routing table and one request handler of the listener     *)
(* LifeSpec  the PID record, the daemon processes and the CLI's start,     *)
(*           stop and status operations                                    *)
(* LockSpec, AliasSpec  the routing table under its lock; values shared   *)
(*           with its callers                                              *)
(* FwdSpec   the forward engine's retry loop                               *)
(* LsnSpec, DrainSpec  the listener's Start and Stop; Stop with a request  *)
(*           in flight                                                     *)
(* ReqSpec   handleRequest and forwardRequest on a running listener        *)
(* SigSpec   the lifecycle calls with SendSignal                           *)
(* MgrSpec   the lifecycle calls with CleanupPIDFile, a failing PID write  *)
(*           and a garbled PID file                                        *)
(* SwSpec, SwFairSpec  the CLI's switch command restarting the daemon      *)
(* StatsSpec the listener's counters and GetStats                          *)
(***************************************************************************)
EXTENDS Integers, Sequences, FiniteSets, TLC

VARIABLES heap, cm_config, s_config, call, lastOK, h_pc, h_api, h_fresh, resp,
          pidFile, procs, termSent, portOwner, cli, status,
          cfgFile, loaded, sw,
          mu, th, held,
          fe_retryCount, fe_pc, fe_attempt, fe_lastErr, fe_result, fe_stats,
          fe_log, fe_body, ctx_done,
          isRunning, sock, s_mu, lt, inflight,
          r_pc, r_api, r_in, r_at, rw, requestCount, errorCount, outLog, upd,
          gs_pc, gs_snap, gs_at

rtVars   == <<heap, cm_config, s_config, call, lastOK, h_pc, h_api, h_fresh, resp>>
\* the active id saved in the configuration file, the active id each daemon
\* loaded when it started, and the CLI's switch command: its phase, the id
\* switched to, and whether a daemon was serving when it was issued
swVars   == <<cfgFile, loaded, sw>>
lifeVars == <<pidFile, procs, termSent, portOwner, cli, status, swVars>>
\* the routing table's lock and the goroutines calling it; a value a caller holds
lkVars   == <<mu, th, held>>
\* one ForwardEngine and the ForwardRequest call in progress
feVars   == <<fe_retryCount, fe_pc, fe_attempt, fe_lastErr, fe_result, fe_stats,
              fe_log, fe_body, ctx_done>>
\* the listener's run state, its socket, its lock and the callers of Start/Stop
lsVars   == <<isRunning, sock, s_mu, lt, inflight>>
\* the listener's handler at work on one request: its place, the target it
\* resolved, the inbound request, the response writer, the counters, the
\* outbound calls made for the request, the target last given to UpdateConfig;
\* r_at is the error counter and that target as they were when the request
\* came, and whether a Stop call was under way then
\* a GetStats call: its place, the snapshot it fills, and the request counter
\* as it was when the call loaded the error counter
gsVars   == <<gs_pc, gs_snap, gs_at>>
rqVars   == <<r_pc, r_api, r_in, r_at, rw, requestCount, errorCount, outLog, upd,
              gsVars>>
extVars  == <<lkVars, feVars, lsVars, rqVars>>
vars     == <<rtVars, lifeVars, extVars>>

(***************************************************************************)
(* Bounds                                                                  *)
(***************************************************************************)
\* longest table AddAPI is tried on
MaxAPIs == 3
\* longest table handed to NewConfigManager / ReloadConfig
MaxLoadLen == 2
\* daemon processes spawned in one run
MaxPids == 2
\* largest retryCount a forward engine is built with
MaxRetry == 3
\* ForwardRequest calls made on one engine
MaxCalls == 2
\* requests the listener handles at the same time
MaxInflight == 2
\* requests one listener is given, one after the other
MaxReqs == 2

(***************************************************************************)
(* config.APIConfig, config.Config                                         *)
(***************************************************************************)
\* target ids; "" is the code's encoding of "no active API", never an id
IDs == {"a", "b", "c"}
\* ids a caller may pass: the ids and one that names no target
ArgIDs == IDs \cup {"zz"}

\* config.APIConfig values: two versions of "a" (to tell two targets with one
\* id apart), one of "b" and of "c"
APIConfigs ==
  { [ID |-> "a", URL |-> "http://a1", APIKey |-> "k1"],
    [ID |-> "a", URL |-> "http://a2", APIKey |-> "k2"],
    [ID |-> "b", URL |-> "http://b", APIKey |-> "kb"],
    [ID |-> "c", URL |-> "http://c", APIKey |-> ""] }

\* the nil *config.APIConfig
NoAPI == [ID |-> "", URL |-> "", APIKey |-> ""]

SeqsUpTo(S, n) == UNION { [1..k -> S] : k \in 0..n }

\* config.Config values: the APIs slice and Settings.ActiveAPI
Configs(n) == { [APIs |-> s, ActiveAPI |-> act] :
                  s \in SeqsUpTo(APIConfigs, n), act \in IDs \cup {""} }

IDsOf(apis) == { apis[i].ID : i \in 1..Len(apis) }

HasID(apis, id) == \E i \in 1..Len(apis) : apis[i].ID = id

\* the first element a range loop over apis finds with this id
FirstWithID(apis, id) ==
  apis[CHOOSE i \in 1..Len(apis) :
         apis[i].ID = id /\ \A j \in 1..(i - 1) : apis[j].ID # id]

UniqueIDs(apis) ==
  \A i, j \in 1..Len(apis) : apis[i].ID = apis[j].ID => i = j

ValidActive(cfg) == cfg.ActiveAPI = "" \/ HasID(cfg.APIs, cfg.ActiveAPI)

\* the heap of *config.Config objects: the object NewConfigManager and
\* NewServer were given, and the one the latest ReloadConfig installed
Objs == {"cfg0", "cfg1"}
Free == [APIs |-> <<>>, ActiveAPI |-> "<free>"]

(***************************************************************************)
(* Errors                                                                  *)
(***************************************************************************)
ErrNone == ""
ErrNoActive == "no active API configured"
ErrActiveNotFound == "active API not found"
ErrAPINotFound == "API not found"
ErrAlreadyExists == "already exists"
ErrRemoveNotFound == "not found"
ErrReloadActive == "active API not found in new configuration"

(***************************************************************************)
(* proxy.ConfigManager                                                     *)
(***************************************************************************)
Cfg == heap[cm_config]

\* GetActiveAPI: the error and the copy it returns
GetActiveAPI(cfg) ==
  IF cfg.ActiveAPI = "" THEN [err |-> ErrNoActive, api |-> NoAPI]
  ELSE IF HasID(cfg.APIs, cfg.ActiveAPI)
       THEN [err |-> ErrNone, api |-> FirstWithID(cfg.APIs, cfg.ActiveAPI)]
       ELSE [err |-> ErrActiveNotFound, api |-> NoAPI]

\* SwitchAPI: the error and the configuration it leaves
SwitchAPI_NoCheck(cfg, apiID) ==
  [err |-> ErrNone, cfg |-> [cfg EXCEPT !.ActiveAPI = apiID]]

SwitchAPI_NoAssign(cfg, apiID) ==
  IF ~HasID(cfg.APIs, apiID) THEN [err |-> ErrAPINotFound, cfg |-> cfg]
  ELSE [err |-> ErrNone, cfg |-> cfg]

SwitchAPI(cfg, apiID) ==
  IF ~HasID(cfg.APIs, apiID) THEN [err |-> ErrAPINotFound, cfg |-> cfg]
  ELSE [err |-> ErrNone, cfg |-> [cfg EXCEPT !.ActiveAPI = apiID]]

\* AddAPI
AddAPI_Replace(cfg, apiConfig) ==
  IF HasID(cfg.APIs, apiConfig.ID)
  THEN [err |-> ErrAlreadyExists,
        cfg |-> [cfg EXCEPT !.APIs =
                   [i \in 1..Len(cfg.APIs) |->
                      IF cfg.APIs[i].ID = apiConfig.ID THEN apiConfig ELSE cfg.APIs[i]]]]
  ELSE [err |-> ErrNone, cfg |-> [cfg EXCEPT !.APIs = Append(cfg.APIs, apiConfig)]]

AddAPI(cfg, apiConfig) ==
  IF HasID(cfg.APIs, apiConfig.ID) THEN [err |-> ErrAlreadyExists, cfg |-> cfg]
  ELSE [err |-> ErrNone, cfg |-> [cfg EXCEPT !.APIs = Append(cfg.APIs, apiConfig)]]

\* RemoveAPI: the loop keeps every element with another id, in order, and
\* clears the active setting when it meets the active id
KeepOthers(apis, apiID) == SelectSeq(apis, LAMBDA x : x.ID # apiID)

RemoveAPI_KeepActive(cfg, apiID) ==
  IF ~HasID(cfg.APIs, apiID) THEN [err |-> ErrRemoveNotFound, cfg |-> cfg]
  ELSE [err |-> ErrNone, cfg |-> [cfg EXCEPT !.APIs = KeepOthers(cfg.APIs, apiID)]]

RemoveAPI(cfg, apiID) ==
  IF ~HasID(cfg.APIs, apiID) THEN [err |-> ErrRemoveNotFound, cfg |-> cfg]
  ELSE [err |-> ErrNone,
        cfg |-> [APIs |-> KeepOthers(cfg.APIs, apiID),
                 ActiveAPI |-> IF cfg.ActiveAPI = apiID THEN "" ELSE cfg.ActiveAPI]]

\* ReloadConfig: whether newConfig passes the validation
ReloadOK_NoCheck(newConfig) == TRUE

ReloadOK(newConfig) ==
  newConfig.ActiveAPI = "" \/ HasID(newConfig.APIs, newConfig.ActiveAPI)

\* the object a ReloadConfig installs: a new one, distinct from the one the
\* server holds; the object the manager drops is referenced by nobody else
\* unless the server shares it
NewObj == IF cm_config = s_config
          THEN CHOOSE o \in Objs : o # s_config
          ELSE cm_config

\* what the last successful mutator was
Mut(op, id, wasActive) == [op |-> op, id |-> id, wasActive |-> wasActive]

\* the record of a call: n flips at every call, so that a call is told from
\* the one before it
Call(op, id, api, err, ret) ==
  [op |-> op, id |-> id, api |-> api, err |-> err, ret |-> ret, n |-> 1 - call.n]

\* a mutator that works on the manager's object in place; rec tells whether
\* the call is recorded for the caller
InPlace(op, id, api, r, wasActive, rec) ==
  /\ heap' = [heap EXCEPT ![cm_config] = r.cfg]
  /\ call' = IF rec THEN Call(op, id, api, r.err, NoAPI) ELSE call
  /\ lastOK' = IF r.err = ErrNone THEN Mut(op, id, wasActive) ELSE lastOK
  /\ h_fresh' = IF r.err = ErrNone THEN FALSE ELSE h_fresh
  /\ UNCHANGED <<cm_config, s_config, h_pc, h_api, resp>>
  /\ UNCHANGED <<lifeVars, extVars>>

SwitchOp(ids, rec) ==
  \E id \in ids : InPlace("Switch", id, NoAPI, SwitchAPI(Cfg, id), FALSE, rec)

AddOp(apis, rec) ==
  \E api \in apis :
    /\ Len(Cfg.APIs) < MaxAPIs
    /\ InPlace("Add", api.ID, api, AddAPI(Cfg, api), FALSE, rec)

RemoveOp(ids, rec) ==
  \E id \in ids :
    InPlace("Remove", id, NoAPI, RemoveAPI(Cfg, id), Cfg.ActiveAPI = id, rec)

ReloadOp(configs, rec) ==
  \E newConfig \in configs :
    /\ IF ReloadOK(newConfig)
       THEN /\ cm_config' = NewObj
            /\ heap' = [heap EXCEPT ![NewObj] = newConfig]
            /\ lastOK' = Mut("Reload", "", FALSE)
            /\ h_fresh' = FALSE
       ELSE UNCHANGED <<heap, cm_config, lastOK, h_fresh>>
    /\ call' = IF rec
               THEN Call("Reload", "", NoAPI,
                         IF ReloadOK(newConfig) THEN ErrNone ELSE ErrReloadActive, NoAPI)
               ELSE call
    /\ UNCHANGED <<s_config, h_pc, h_api, resp>>
    /\ UNCHANGED <<lifeVars, extVars>>

\* the administrative calls of Spec, each recorded
Switch == SwitchOp(ArgIDs, TRUE)

Add == AddOp(APIConfigs, TRUE)

Remove == RemoveOp(ArgIDs, TRUE)

Reload == ReloadOp(Configs(MaxLoadLen), TRUE)

GetActive ==
  /\ call' = Call("GetActive", "", NoAPI, GetActiveAPI(Cfg).err, GetActiveAPI(Cfg).api)
  /\ UNCHANGED <<heap, cm_config, s_config, lastOK, h_pc, h_api, h_fresh, resp>>
  /\ UNCHANGED <<lifeVars, extVars>>

(***************************************************************************)
(* proxy.Server: one request through handleRequest                         *)
(***************************************************************************)
SrvCfg == heap[s_config]

\* Server.getActiveAPI: the server reads its own s.config
getActiveAPI_FirstOnMiss(cfg) ==
  IF cfg.ActiveAPI # "" /\ HasID(cfg.APIs, cfg.ActiveAPI)
  THEN [err |-> ErrNone, api |-> FirstWithID(cfg.APIs, cfg.ActiveAPI)]
  ELSE IF Len(cfg.APIs) > 0 THEN [err |-> ErrNone, api |-> cfg.APIs[1]]
  ELSE [err |-> "no active API", api |-> NoAPI]

getActiveAPI(cfg) ==
  IF cfg.ActiveAPI = "" THEN [err |-> "no active API", api |-> NoAPI]
  ELSE IF HasID(cfg.APIs, cfg.ActiveAPI)
       THEN [err |-> ErrNone, api |-> FirstWithID(cfg.APIs, cfg.ActiveAPI)]
       ELSE [err |-> ErrActiveNotFound, api |-> NoAPI]

\* the outbound call of a response: the URL and the credential it was made with
NoOut == [URL |-> "", APIKey |-> ""]
NoResp == [status |-> 0, body |-> "", out |-> NoOut, activeAtSend |-> NoAPI]

\* forwardRequest builds the outbound call from the api it was handed
OutboundTarget_Reread(api) ==
  IF getActiveAPI(SrvCfg).err = ErrNone
  THEN [URL |-> getActiveAPI(SrvCfg).api.URL, APIKey |-> getActiveAPI(SrvCfg).api.APIKey]
  ELSE [URL |-> api.URL, APIKey |-> api.APIKey]

OutboundTarget(api) == [URL |-> api.URL, APIKey |-> api.APIKey]

\* handleRequest up to the resolution of the active API: on failure the 502
\* is written and the request is over
HandleResolve ==
  /\ h_pc = "idle"
  /\ h_fresh' = TRUE
  /\ IF getActiveAPI(SrvCfg).err # ErrNone
     THEN /\ resp' = [status |-> 502, body |-> "no active API configured",
                      out |-> NoOut, activeAtSend |-> NoAPI]
          /\ h_api' = NoAPI
          /\ h_pc' = "idle"
     ELSE /\ h_api' = getActiveAPI(SrvCfg).api
          /\ h_pc' = "resolved"
          /\ resp' = NoResp
  /\ UNCHANGED <<heap, cm_config, s_config, call, lastOK>>
  /\ UNCHANGED <<lifeVars, extVars>>

\* handleRequest from forwardRequest on: one outbound call, then the
\* upstream's response is relayed or a 502 is written
HandleForward ==
  /\ h_pc = "resolved"
  /\ \E ok \in BOOLEAN :
       resp' = [status |-> IF ok THEN 200 ELSE 502,
                body |-> IF ok THEN "upstream" ELSE "failed to forward request",
                out |-> OutboundTarget(h_api),
                activeAtSend |-> getActiveAPI(SrvCfg).api]
  /\ h_pc' = "idle"
  /\ UNCHANGED <<heap, cm_config, s_config, call, lastOK, h_api, h_fresh>>
  /\ UNCHANGED <<lifeVars, extVars>>

(***************************************************************************)
(* Spec: the routing table under its administrative calls                  *)
(***************************************************************************)
InitConfigs == { c \in Configs(MaxLoadLen) : UniqueIDs(c.APIs) /\ ValidActive(c) }

\* the lifecycle part at rest: no PID record, no process, no CLI call
PIDs == 1..MaxPids
CLIs == {"c1", "c2"}
NoRecord == [exists |-> FALSE, pid |-> 0]
CliIdle == [op |-> "", pc |-> "idle", pid |-> 0, res |-> ""]

SwIdle == [phase |-> "none", id |-> "", was |-> FALSE]

SwRest ==
  /\ loaded = [p \in PIDs |-> ""]
  /\ sw = SwIdle

LifeIdle ==
  /\ cfgFile = ""
  /\ SwRest
  /\ pidFile = NoRecord
  /\ procs = [p \in PIDs |-> "none"]
  /\ termSent = {}
  /\ portOwner = 0
  /\ cli = [c \in CLIs |-> CliIdle]
  /\ status = [n |-> 0, running |-> FALSE, pid |-> 0]

\* the lock-level view of the routing table at rest
Threads == {"t1", "t2"}
NoCfg == [APIs |-> <<>>, ActiveAPI |-> "<none>"]
ThIdle == [op |-> "", pc |-> "idle", id |-> "", api |-> NoAPI, cfg |-> NoCfg,
           loc |-> "", err |-> "", ret |-> NoAPI, rcfg |-> NoCfg, seen |-> {}]
NoHeld == [kind |-> "none", api |-> NoAPI, cfg |-> NoCfg]

LockIdle ==
  /\ mu = [w |-> "none", r |-> {}]
  /\ th = [t \in Threads |-> ThIdle]
  /\ held = NoHeld

\* a forward engine at rest: no call made yet
NoOutcome == [kind |-> "none", code |-> 0, msg |-> ""]
NoFwdErr == [kind |-> "", wraps |-> NoOutcome]
NoResult == [resp |-> 0, err |-> NoFwdErr]
ZeroStats == [total |-> 0, ok |-> 0, failed |-> 0, retries |-> 0]
NoBody == [in |-> <<>>, left |-> <<>>, sent |-> <<>>]

FwdIdle(n) ==
  /\ fe_retryCount = n
  /\ fe_pc = "idle"
  /\ fe_attempt = 0
  /\ fe_lastErr = NoOutcome
  /\ fe_result = NoResult
  /\ fe_stats = ZeroStats
  /\ fe_log = <<>>
  /\ fe_body = NoBody
  /\ ctx_done = FALSE

\* NewServer: a listener that was never started
LThreads == {"g1", "g2"}
LtIdle == [op |-> "", pc |-> "idle", res |-> "", b0 |-> FALSE, ov |-> FALSE]

LsnIdle ==
  /\ isRunning = FALSE
  /\ sock = "none"
  /\ s_mu = "none"
  /\ lt = [g \in LThreads |-> LtIdle]
  /\ inflight = 0

\* the handler at rest: no request yet, an empty response writer
NoIn == [method |-> "", path |-> "", query |-> ""]
NoW == [status |-> 0, ctype |-> "", body |-> <<>>, extra |-> 0]
NoAt == [errors |-> 0, upd |-> NoAPI, stop |-> FALSE]

NoSnap == [RequestCount |-> 0, ErrorCount |-> 0]

RqIdle ==
  /\ r_pc = "idle"
  /\ gs_pc = "idle"
  /\ gs_snap = NoSnap
  /\ gs_at = 0
  /\ r_api = NoAPI
  /\ r_in = NoIn
  /\ r_at = NoAt
  /\ rw = NoW
  /\ requestCount = 0
  /\ errorCount = 0
  /\ outLog = <<>>
  /\ upd = NoAPI

ExtIdle == LockIdle /\ FwdIdle(1) /\ LsnIdle /\ RqIdle

\* NewConfigManager(cfg) on the object cfg0; srv is the object a listener was
\* built on ("none": no listener)
RtInit(configs, srv) ==
  /\ \E c \in configs : heap = [o \in Objs |-> IF o = "cfg0" THEN c ELSE Free]
  /\ cm_config = "cfg0"
  /\ s_config = srv
  /\ call = [op |-> "None", id |-> "", api |-> NoAPI, err |-> ErrNone, ret |-> NoAPI, n |-> 0]
  /\ lastOK = Mut("None", "", FALSE)
  /\ h_pc = "idle"
  /\ h_api = NoAPI
  /\ h_fresh = FALSE
  /\ resp = NoResp

InitWith(configs, srv) ==
  /\ RtInit(configs, srv)
  /\ LifeIdle
  /\ ExtIdle

Init == InitWith(InitConfigs, "none")

Next ==
  \/ Switch
  \/ Add
  \/ Remove
  \/ Reload
  \/ GetActive

Spec == Init /\ [][Next]_vars

(***************************************************************************)
(* SrvSpec: a listener built on the configuration object the routing table *)
(* was built on, one request in flight, and the administrative calls       *)
(***************************************************************************)
SrvAPIs == { x \in APIConfigs : x.URL \in {"http://a1", "http://b"} }
SrvIDs == {"a", "b", "zz"}

SrvInitConfigs ==
  { [APIs |-> <<FirstWithID(<<x>>, x.ID), y>>, ActiveAPI |-> act] :
      x \in { z \in APIConfigs : z.URL = "http://a1" },
      y \in { z \in APIConfigs : z.URL = "http://b" },
      act \in {"", "a"} }

SrvNewConfigs ==
  { c \in Configs(MaxLoadLen) :
      /\ Len(c.APIs) = MaxLoadLen
      /\ c.APIs[1].URL = "http://a2"
      /\ c.APIs[Len(c.APIs)].ID = "b"
      /\ c.ActiveAPI \in {"a", "c"} }

SrvSwitch == SwitchOp(SrvIDs, FALSE)

SrvAdd == AddOp(SrvAPIs, FALSE)

SrvRemove == RemoveOp(SrvIDs, FALSE)

SrvReload == ReloadOp(SrvNewConfigs, FALSE)

SrvInit == InitWith(SrvInitConfigs, "cfg0")

SrvNext ==
  \/ SrvSwitch
  \/ SrvAdd
  \/ SrvRemove
  \/ SrvReload
  \/ HandleResolve
  \/ HandleForward

SrvSpec == SrvInit /\ [][SrvNext]_vars

(***************************************************************************)
(* The service lifecycle: process.Manager, ServiceManager, runDaemon       *)
(*                                                                         *)
(* procs[p] is the state of process p: "none" (not spawned yet), "boot"    *)
(* (runDaemon before its WritePIDFile), "recorded" (before the proxy       *)
(* server's Start), "serving", "dead". termSent holds the processes a      *)
(* SIGTERM was sent to and that have not exited yet. Every spawned process *)
(* gets a PID of its own.                                                  *)
(***************************************************************************)
Alive(p) == p \in PIDs /\ procs[p] \in {"boot", "recorded", "serving"}

\* process.Signal(syscall.Signal(0)) succeeds on the process
ProbeAlive_Never(p) == FALSE

ProbeAlive_Always(p) == TRUE

ProbeAlive(p) == p \in PIDs /\ procs[p] \notin {"none", "dead"}

\* a PID file whose content strconv.Atoi rejects: in an existing record, pid 0
\* stands for content that is not an integer
Garbled == [exists |-> TRUE, pid |-> 0]

\* readPIDFile: os.ReadFile, then strconv.Atoi of the trimmed content
readPIDFile(rec) ==
  IF rec.exists /\ rec # Garbled
  THEN [err |-> FALSE, pid |-> rec.pid]
  ELSE [err |-> TRUE, pid |-> 0]

\* GetDaemonStatus up to its result: readPIDFile, then the probe
DaemonStatus_StaleRunning ==
  IF ~pidFile.exists THEN [running |-> FALSE, pid |-> 0, stale |-> FALSE]
  ELSE [running |-> TRUE, pid |-> pidFile.pid, stale |-> FALSE]

DaemonStatus_NoRecordRunning ==
  IF ~pidFile.exists THEN [running |-> TRUE, pid |-> 1, stale |-> FALSE]
  ELSE IF ProbeAlive(pidFile.pid)
       THEN [running |-> TRUE, pid |-> pidFile.pid, stale |-> FALSE]
       ELSE [running |-> FALSE, pid |-> 0, stale |-> TRUE]

DaemonStatus ==
  IF readPIDFile(pidFile).err THEN [running |-> FALSE, pid |-> 0, stale |-> FALSE]
  ELSE IF ProbeAlive(pidFile.pid)
       THEN [running |-> TRUE, pid |-> pidFile.pid, stale |-> FALSE]
       ELSE [running |-> FALSE, pid |-> 0, stale |-> TRUE]

\* cli[c] is a CLI process's call: its operation, its place in it, the PID it
\* holds (of the child it spawned, of the process it signals, or the one an
\* AlreadyRunning error names) and its result.
\* A CLI process begins start (ServiceManager.Start), stop (StopDaemon) or
\* status (GetDaemonStatus)
Begin(c) ==
  /\ cli[c].pc \in {"idle", "done"}
  /\ \E op \in {"start", "stop", "status"} :
       cli' = [cli EXCEPT ![c] = [op |-> op, pc |-> "check", pid |-> 0, res |-> ""]]
  /\ UNCHANGED <<pidFile, procs, termSent, portOwner, status>>
  /\ UNCHANGED <<rtVars, extVars, swVars>>

\* where a call goes on once GetDaemonStatus has answered st
AfterStatus(c, st) ==
  IF cli[c].op = "start"
  THEN IF st.running
       THEN [cli[c] EXCEPT !.pc = "done", !.res = "AlreadyRunning", !.pid = st.pid]
       ELSE [cli[c] EXCEPT !.pc = "fork"]
  ELSE IF cli[c].op = "stop"
  THEN IF st.running
       THEN [cli[c] EXCEPT !.pc = "signal", !.pid = st.pid]
       ELSE [cli[c] EXCEPT !.pc = "done", !.res = "NotRunning"]
  ELSE IF cli[c].op = "sendsig"
  THEN IF st.running
       THEN [cli[c] EXCEPT !.pc = "sendsig", !.pid = st.pid]
       ELSE [cli[c] EXCEPT !.pc = "done", !.res = "NotRunning"]
  ELSE [cli[c] EXCEPT !.pc = "done", !.res = "ok"]

\* GetDaemonStatus reads the record and probes the process; a stale record is
\* removed in the next step
Check(c) ==
  /\ cli[c].pc = "check"
  /\ status' = IF cli[c].op = "status"
               THEN [n |-> 1 - status.n, running |-> DaemonStatus.running,
                     pid |-> DaemonStatus.pid]
               ELSE status
  /\ cli' = [cli EXCEPT ![c] = IF DaemonStatus.stale
                               THEN [cli[c] EXCEPT !.pc = "cleanup"]
                               ELSE AfterStatus(c, DaemonStatus)]
  /\ UNCHANGED <<pidFile, procs, termSent, portOwner>>
  /\ UNCHANGED <<rtVars, extVars, swVars>>

\* GetDaemonStatus's CleanupPIDFile of a stale record: os.Remove of the file
\* as it is now
Cleanup(c) ==
  /\ cli[c].pc = "cleanup"
  /\ pidFile' = NoRecord
  /\ cli' = [cli EXCEPT ![c] =
               AfterStatus(c, [running |-> FALSE, pid |-> 0, stale |-> FALSE])]
  /\ UNCHANGED <<procs, termSent, portOwner, status>>
  /\ UNCHANGED <<rtVars, extVars, swVars>>

\* forkDaemon: cmd.Start() spawns the daemon process
Fork(c) ==
  /\ cli[c].pc = "fork"
  /\ \E p \in PIDs :
       /\ procs[p] = "none"
       /\ \A q \in PIDs : q < p => procs[q] # "none"
       /\ procs' = [procs EXCEPT ![p] = "boot"]
       /\ cli' = [cli EXCEPT ![c] = [cli[c] EXCEPT !.pc = "write", !.pid = p]]
  /\ UNCHANGED <<pidFile, termSent, portOwner, status>>
  /\ UNCHANGED <<rtVars, extVars, swVars>>

\* forkDaemon: WritePIDFile(cmd.Process.Pid)
Write(c) ==
  /\ cli[c].pc = "write"
  /\ pidFile' = [exists |-> TRUE, pid |-> cli[c].pid]
  /\ cli' = [cli EXCEPT ![c] = [cli[c] EXCEPT !.pc = "done", !.res = "ok", !.pid = 0]]
  /\ UNCHANGED <<procs, termSent, portOwner, status>>
  /\ UNCHANGED <<rtVars, extVars, swVars>>

\* StopDaemon: SIGTERM to the recorded PID; a process that is gone by now
\* makes Signal fail and StopDaemon return its error
Signal(c) ==
  /\ cli[c].pc = "signal"
  /\ IF ProbeAlive(cli[c].pid)
     THEN /\ termSent' = termSent \cup {cli[c].pid}
          /\ cli' = [cli EXCEPT ![c] = [cli[c] EXCEPT !.pc = "remove"]]
     ELSE /\ cli' = [cli EXCEPT ![c] =
                    [cli[c] EXCEPT !.pc = "done", !.res = "SignalFailed", !.pid = 0]]
          /\ UNCHANGED termSent
  /\ UNCHANGED <<pidFile, procs, portOwner, status>>
  /\ UNCHANGED <<rtVars, extVars, swVars>>

\* StopDaemon: after the 100 ms sleep, CleanupPIDFile, whether or not the
\* process has exited
RemoveRecord(c) ==
  /\ cli[c].pc = "remove"
  /\ pidFile' = NoRecord
  /\ cli' = [cli EXCEPT ![c] =
               [cli[c] EXCEPT !.pc = "done", !.pid = 0,
                              !.res = IF pidFile.exists THEN "ok" ELSE "RemoveFailed"]]
  /\ UNCHANGED <<procs, termSent, portOwner, status>>
  /\ UNCHANGED <<rtVars, extVars, swVars>>

\* runDaemon: NewServiceManager loads the configuration file, then
\* WritePIDFile(os.Getpid())
DaemonWritePID(p) ==
  /\ procs[p] = "boot"
  /\ p \notin termSent
  /\ loaded' = [loaded EXCEPT ![p] = cfgFile]
  /\ pidFile' = [exists |-> TRUE, pid |-> p]
  /\ procs' = [procs EXCEPT ![p] = "recorded"]
  /\ UNCHANGED <<termSent, portOwner, cli, status, cfgFile, sw>>
  /\ UNCHANGED <<rtVars, extVars>>

\* runDaemon: proxyServer.Start() binds the configured port; when another
\* process holds it the daemon leaves through os.Exit(1), which runs no
\* deferred cleanup
DaemonStartProxy(p) ==
  /\ procs[p] = "recorded"
  /\ p \notin termSent
  /\ IF portOwner = 0
     THEN procs' = [procs EXCEPT ![p] = "serving"] /\ portOwner' = p
     ELSE procs' = [procs EXCEPT ![p] = "dead"] /\ UNCHANGED portOwner
  /\ UNCHANGED <<pidFile, termSent, cli, status>>
  /\ UNCHANGED <<rtVars, extVars, swVars>>

\* the process ends: it leaves the PID record as it is and frees the port
Exit(p) ==
  /\ procs' = [procs EXCEPT ![p] = "dead"]
  /\ termSent' = termSent \ {p}
  /\ portOwner' = IF portOwner = p THEN 0 ELSE portOwner
  /\ UNCHANGED <<pidFile, cli, status>>
  /\ UNCHANGED <<rtVars, extVars, swVars>>

\* a daemon that got SIGTERM exits: runDaemon installs no handler
TermExit(p) == p \in termSent /\ Exit(p)

\* a daemon crashes or is killed
Crash(p) == Alive(p) /\ p \notin termSent /\ Exit(p)

LifeInit == InitWith({[APIs |-> <<>>, ActiveAPI |-> ""]}, "none")

LifeNext ==
  \/ \E c \in CLIs : Begin(c)
  \/ \E c \in CLIs : Check(c)
  \/ \E c \in CLIs : Cleanup(c)
  \/ \E c \in CLIs : Fork(c)
  \/ \E c \in CLIs : Write(c)
  \/ \E c \in CLIs : Signal(c)
  \/ \E c \in CLIs : RemoveRecord(c)
  \/ \E p \in PIDs : DaemonWritePID(p)
  \/ \E p \in PIDs : DaemonStartProxy(p)
  \/ \E p \in PIDs : TermExit(p)
  \/ \E p \in PIDs : Crash(p)

LifeSpec == LifeInit /\ [][LifeNext]_vars

\* SeqLifeSpec: the CLI's calls one after the other (a call begins when no
\* other is in progress), with the daemons' own steps in between
SeqBegin(c) ==
  /\ \A d \in CLIs : cli[d].pc \in {"idle", "done"}
  /\ Begin(c)

SeqLifeNext ==
  \/ \E c \in CLIs : SeqBegin(c)
  \/ \E c \in CLIs : Check(c)
  \/ \E c \in CLIs : Cleanup(c)
  \/ \E c \in CLIs : Fork(c)
  \/ \E c \in CLIs : Write(c)
  \/ \E c \in CLIs : Signal(c)
  \/ \E c \in CLIs : RemoveRecord(c)
  \/ \E p \in PIDs : DaemonWritePID(p)
  \/ \E p \in PIDs : DaemonStartProxy(p)
  \/ \E p \in PIDs : TermExit(p)
  \/ \E p \in PIDs : Crash(p)

SeqLifeSpec == LifeInit /\ [][SeqLifeNext]_vars

\* SigSpec: the calls of SeqLifeSpec and Manager.SendSignal
\* the signals SendSignal is given: one that ends a Go program that installed
\* no handler for it, one that such a program ignores
Signals == {"SIGTERM", "SIGUSR1"}

\* a CLI process calls SendSignal
SigBegin(c) ==
  /\ \A d \in CLIs : cli[d].pc \in {"idle", "done"}
  /\ cli' = [cli EXCEPT ![c] = [op |-> "sendsig", pc |-> "check", pid |-> 0, res |-> ""]]
  /\ UNCHANGED <<pidFile, procs, termSent, portOwner, status>>
  /\ UNCHANGED <<rtVars, extVars, swVars>>

\* SendSignal: process.Signal(signal) on the recorded PID; it fails on a
\* process that is gone by now
SendSig(c) ==
  /\ cli[c].pc = "sendsig"
  /\ \E sig \in Signals :
       IF ProbeAlive(cli[c].pid)
       THEN /\ termSent' = IF sig = "SIGTERM" THEN termSent \cup {cli[c].pid} ELSE termSent
            /\ cli' = [cli EXCEPT ![c] = [cli[c] EXCEPT !.pc = "done", !.res = "ok", !.pid = 0]]
       ELSE /\ cli' = [cli EXCEPT ![c] =
                      [cli[c] EXCEPT !.pc = "done", !.res = "SignalFailed", !.pid = 0]]
            /\ UNCHANGED termSent
  /\ UNCHANGED <<pidFile, procs, portOwner, status>>
  /\ UNCHANGED <<rtVars, extVars, swVars>>

SigNext ==
  \/ \E c \in CLIs : SeqBegin(c)
  \/ \E c \in CLIs : SigBegin(c)
  \/ \E c \in CLIs : Check(c)
  \/ \E c \in CLIs : Cleanup(c)
  \/ \E c \in CLIs : Fork(c)
  \/ \E c \in CLIs : Write(c)
  \/ \E c \in CLIs : Signal(c)
  \/ \E c \in CLIs : SendSig(c)
  \/ \E c \in CLIs : RemoveRecord(c)
  \/ \E p \in PIDs : DaemonWritePID(p)
  \/ \E p \in PIDs : DaemonStartProxy(p)
  \/ \E p \in PIDs : TermExit(p)
  \/ \E p \in PIDs : Crash(p)

SigSpec == LifeInit /\ [][SigNext]_vars

(***************************************************************************)
(* MgrSpec: the calls of SeqLifeSpec made by one CLI process after the     *)
(* other, Manager.CleanupPIDFile called on its own, a WritePIDFile that    *)
(* fails in forkDaemon, and a PID file that may hold garbage when the      *)
(* first call is made.                                                     *)
(***************************************************************************)
\* CleanupPIDFile: the result of os.Remove(m.pidFile)
CleanupPIDFile_Idempotent(rec) == "ok"

CleanupPIDFile(rec) == IF rec.exists THEN "ok" ELSE "NotExist"

\* a CLI process calls CleanupPIDFile
CleanupBegin(c) ==
  /\ \A d \in CLIs : cli[d].pc \in {"idle", "done"}
  /\ cli' = [cli EXCEPT ![c] = [op |-> "cleanup", pc |-> "unlink", pid |-> 0, res |-> ""]]
  /\ UNCHANGED <<pidFile, procs, termSent, portOwner, status>>
  /\ UNCHANGED <<rtVars, extVars, swVars>>

CleanupCall(c) ==
  /\ cli[c].pc = "unlink"
  /\ pidFile' = NoRecord
  /\ cli' = [cli EXCEPT ![c] = [cli[c] EXCEPT !.pc = "done", !.res = CleanupPIDFile(pidFile)]]
  /\ UNCHANGED <<procs, termSent, portOwner, status>>
  /\ UNCHANGED <<rtVars, extVars, swVars>>

\* cmd.Process.Kill() on the child p
KillChild_Spared(ps, p) == ps

KillChild(ps, p) == [ps EXCEPT ![p] = "dead"]

\* forkDaemon: WritePIDFile(cmd.Process.Pid) fails; the child is killed and
\* the error returned
WriteFail(c) ==
  /\ cli[c].pc = "write"
  /\ procs' = KillChild(procs, cli[c].pid)
  /\ termSent' = IF Alive(cli[c].pid) /\ procs'[cli[c].pid] = "dead"
                 THEN termSent \ {cli[c].pid} ELSE termSent
  /\ portOwner' = IF portOwner = cli[c].pid /\ procs'[cli[c].pid] = "dead"
                  THEN 0 ELSE portOwner
  /\ cli' = [cli EXCEPT ![c] = [cli[c] EXCEPT !.pc = "done", !.res = "WriteFailed"]]
  /\ UNCHANGED <<pidFile, status>>
  /\ UNCHANGED <<rtVars, extVars, swVars>>

MgrInit ==
  /\ RtInit({[APIs |-> <<>>, ActiveAPI |-> ""]}, "none")
  /\ pidFile \in {NoRecord, Garbled}
  /\ cfgFile = ""
  /\ SwRest
  /\ procs = [p \in PIDs |-> "none"]
  /\ termSent = {}
  /\ portOwner = 0
  /\ cli = [c \in CLIs |-> CliIdle]
  /\ status = [n |-> 0, running |-> FALSE, pid |-> 0]
  /\ ExtIdle

MgrNext ==
  \/ SeqBegin("c1")
  \/ CleanupBegin("c1")
  \/ Check("c1")
  \/ Cleanup("c1")
  \/ Fork("c1")
  \/ Write("c1")
  \/ WriteFail("c1")
  \/ Signal("c1")
  \/ RemoveRecord("c1")
  \/ CleanupCall("c1")
  \/ \E p \in PIDs : DaemonWritePID(p)
  \/ \E p \in PIDs : DaemonStartProxy(p)
  \/ \E p \in PIDs : TermExit(p)
  \/ \E p \in PIDs : Crash(p)

MgrSpec == MgrInit /\ [][MgrNext]_vars

(***************************************************************************)
(* SwSpec: 'octopus config switch <id>' from the CLI. The command saves    *)
(* the id as the active one in the configuration file and, when Status     *)
(* says a daemon is running, calls ServiceManager.Stop and, if that        *)
(* succeeded, ServiceManager.Start; its failures are printed as warnings.  *)
(* One CLI process makes its calls before the switch and none after it;    *)
(* once the switch is issued no process crashes, and no file operation     *)
(* fails.                                                                  *)
(***************************************************************************)
SwitchIDs == {"a", "b"}

\* a daemon is serving and the PID record names it
Serving(p) == procs[p] = "serving" /\ pidFile = [exists |-> TRUE, pid |-> p]

\* a start, stop or status call before the switch, one PID being kept for the
\* daemon the switch starts
SwCall ==
  /\ sw.phase = "none"
  /\ \E p, q \in PIDs : p # q /\ procs[p] = "none" /\ procs[q] = "none"
  /\ SeqBegin("c1")

\* the switch command: SetActiveAPI(name), SaveConfig(cfg), then
\* serviceManager.Status()
SwBegin ==
  /\ sw.phase = "none"
  /\ \A d \in CLIs : cli[d].pc \in {"idle", "done"}
  /\ \E id \in SwitchIDs :
       /\ cfgFile' = id
       /\ sw' = [phase |-> "status", id |-> id, was |-> \E p \in PIDs : Serving(p)]
  /\ cli' = [cli EXCEPT !["c1"] = [op |-> "status", pc |-> "check", pid |-> 0, res |-> ""]]
  /\ UNCHANGED <<pidFile, procs, termSent, portOwner, status, loaded>>
  /\ UNCHANGED <<rtVars, extVars>>

\* status.IsRunning: serviceManager.Stop(), else the command ends
SwAfterStatus ==
  /\ sw.phase = "status"
  /\ cli["c1"].pc = "done"
  /\ IF status.running
     THEN /\ sw' = [sw EXCEPT !.phase = "stop"]
          /\ cli' = [cli EXCEPT !["c1"] = [op |-> "stop", pc |-> "check", pid |-> 0, res |-> ""]]
     ELSE /\ sw' = [sw EXCEPT !.phase = "ended"]
          /\ UNCHANGED cli
  /\ UNCHANGED <<pidFile, procs, termSent, portOwner, status, cfgFile, loaded>>
  /\ UNCHANGED <<rtVars, extVars>>

\* Stop returned: without error, serviceManager.Start(); with an error, a
\* warning and the command ends
SwAfterStop ==
  /\ sw.phase = "stop"
  /\ cli["c1"].pc = "done"
  /\ IF cli["c1"].res = "ok"
     THEN /\ sw' = [sw EXCEPT !.phase = "start"]
          /\ cli' = [cli EXCEPT !["c1"] = [op |-> "start", pc |-> "check", pid |-> 0, res |-> ""]]
     ELSE /\ sw' = [sw EXCEPT !.phase = "ended"]
          /\ UNCHANGED cli
  /\ UNCHANGED <<pidFile, procs, termSent, portOwner, status, cfgFile, loaded>>
  /\ UNCHANGED <<rtVars, extVars>>

\* Start returned: the command prints its result and ends
SwAfterStart ==
  /\ sw.phase = "start"
  /\ cli["c1"].pc = "done"
  /\ sw' = [sw EXCEPT !.phase = "ended"]
  /\ UNCHANGED <<pidFile, procs, termSent, portOwner, cli, status, cfgFile, loaded>>
  /\ UNCHANGED <<rtVars, extVars>>

SwInit ==
  /\ RtInit({[APIs |-> <<>>, ActiveAPI |-> ""]}, "none")
  /\ cfgFile \in SwitchIDs
  /\ SwRest
  /\ pidFile = NoRecord
  /\ procs = [p \in PIDs |-> "none"]
  /\ termSent = {}
  /\ portOwner = 0
  /\ cli = [c \in CLIs |-> CliIdle]
  /\ status = [n |-> 0, running |-> FALSE, pid |-> 0]
  /\ ExtIdle

\* the steps of the CLI process once a command was given
SwCliStep ==
  \/ Check("c1")
  \/ Cleanup("c1")
  \/ Fork("c1")
  \/ Write("c1")
  \/ Signal("c1")
  \/ RemoveRecord("c1")
  \/ SwAfterStatus
  \/ SwAfterStop
  \/ SwAfterStart

\* the steps of the daemon process p
SwDaemonStep(p) ==
  \/ DaemonWritePID(p)
  \/ DaemonStartProxy(p)
  \/ TermExit(p)

\* a daemon crashes before the switch is issued
SwCrash(p) == sw.phase = "none" /\ Crash(p)

SwNext ==
  \/ SwCall
  \/ SwBegin
  \/ SwCliStep
  \/ \E p \in PIDs : SwDaemonStep(p)
  \/ \E p \in PIDs : SwCrash(p)

SwSpec == SwInit /\ [][SwNext]_vars

\* every process that can take a step is scheduled in the end
SwFairSpec ==
  /\ SwSpec
  /\ WF_vars(SwCliStep)
  /\ \A p \in PIDs : WF_vars(SwDaemonStep(p))

(***************************************************************************)
(* LockSpec: the routing table under its sync.RWMutex. Two goroutines call *)
(* its methods; a method takes the lock, runs its body in the steps that   *)
(* read or write cm.config, and releases the lock. No listener is built on *)
(* the configuration object.                                               *)
(*                                                                         *)
(* th[t]: the call of goroutine t: op, pc ("idle", "lock": waiting for the *)
(* lock, "cs1"/"cs2": in the body, "unlock": about to return), arguments   *)
(* (id, api, cfg), the local activeID / configCopy.Settings (loc), results *)
(* (err, ret, rcfg) and, for GetActiveAPI, the targets that were active at *)
(* some instant since the call began (seen).                               *)
(***************************************************************************)
Readers == {"GetActive", "GetAll", "GetConfig"}
Writers == {"Switch", "Add", "Remove", "Reload"}

\* cm.mu.RLock() goes through when no writer holds the lock
CanRLock_NoWait == TRUE

CanRLock == mu.w = "none"

\* cm.mu.Lock() goes through when nobody holds the lock
CanLock == mu.w = "none" /\ mu.r = {}

\* the calls in progress that are GetActiveAPI calls note the active target of cfg
Observe(nth, cfg) ==
  [t \in Threads |->
     IF nth[t].op = "GetActive" /\ nth[t].pc # "idle"
     THEN [nth[t] EXCEPT !.seen = @ \cup {GetActiveAPI(cfg).api}]
     ELSE nth[t]]

\* the tables LockSpec's Reload calls hand over: another URL for target a, the
\* active id naming a target of the table or none of them
LkNewConfigs ==
  { [APIs |-> <<x, y>>, ActiveAPI |-> act] :
      x \in { z \in APIConfigs : z.URL = "http://a2" },
      y \in { z \in APIConfigs : z.URL = "http://b" },
      act \in {"a", "c"} }

\* the arguments of LockSpec's calls
LkCalls ==
  { [ThIdle EXCEPT !.op = op, !.pc = "lock"] : op \in Readers }
  \cup { [ThIdle EXCEPT !.op = "Switch", !.pc = "lock", !.id = id] : id \in SrvIDs }
  \cup { [ThIdle EXCEPT !.op = "Remove", !.pc = "lock", !.id = id] : id \in SrvIDs }
  \cup { [ThIdle EXCEPT !.op = "Add", !.pc = "lock", !.api = api] : api \in SrvAPIs }
  \cup { [ThIdle EXCEPT !.op = "Reload", !.pc = "lock", !.cfg = c] : c \in LkNewConfigs }

\* a goroutine calls a method
LkBegin(t) ==
  /\ th[t].pc = "idle"
  /\ \E c \in LkCalls : th' = Observe([th EXCEPT ![t] = c], Cfg)
  /\ UNCHANGED <<mu, held>>
  /\ UNCHANGED <<rtVars, lifeVars, feVars, lsVars, rqVars>>

\* cm.mu.RLock() / cm.mu.Lock() returns
LkAcquire(t) ==
  /\ th[t].pc = "lock"
  /\ IF th[t].op \in Readers
     THEN CanRLock /\ mu' = [mu EXCEPT !.r = @ \cup {t}]
     ELSE CanLock /\ mu' = [mu EXCEPT !.w = t]
  /\ th' = Observe([th EXCEPT ![t].pc = "cs1"], Cfg)
  /\ UNCHANGED held
  /\ UNCHANGED <<rtVars, lifeVars, feVars, lsVars, rqVars>>

\* what the first step of a method's body leaves: the configuration object
\* and the call's record
LkBody1(c) ==
  CASE c.op = "GetActive" ->
         [cfg |-> Cfg,
          th |-> IF Cfg.ActiveAPI = ""
                 THEN [c EXCEPT !.pc = "unlock", !.err = ErrNoActive]
                 ELSE [c EXCEPT !.pc = "cs2", !.loc = Cfg.ActiveAPI]]
    [] c.op = "GetAll" ->
         [cfg |-> Cfg,
          th |-> [c EXCEPT !.pc = "unlock", !.rcfg = [NoCfg EXCEPT !.APIs = Cfg.APIs]]]
    [] c.op = "GetConfig" ->
         [cfg |-> Cfg, th |-> [c EXCEPT !.pc = "cs2", !.loc = Cfg.ActiveAPI]]
    [] c.op = "Switch" ->
         [cfg |-> SwitchAPI(Cfg, c.id).cfg,
          th |-> [c EXCEPT !.pc = "unlock", !.err = SwitchAPI(Cfg, c.id).err]]
    [] c.op = "Add" ->
         [cfg |-> AddAPI(Cfg, c.api).cfg,
          th |-> [c EXCEPT !.pc = "unlock", !.err = AddAPI(Cfg, c.api).err]]
    [] c.op = "Remove" ->
         IF RemoveAPI(Cfg, c.id).err # ErrNone
         THEN [cfg |-> Cfg, th |-> [c EXCEPT !.pc = "unlock", !.err = ErrRemoveNotFound]]
         ELSE [cfg |-> [Cfg EXCEPT !.ActiveAPI = RemoveAPI(Cfg, c.id).cfg.ActiveAPI],
               th |-> [c EXCEPT !.pc = "cs2"]]
    [] c.op = "Reload" ->
         IF ReloadOK(c.cfg)
         THEN [cfg |-> c.cfg, th |-> [c EXCEPT !.pc = "unlock"]]
         ELSE [cfg |-> Cfg, th |-> [c EXCEPT !.pc = "unlock", !.err = ErrReloadActive]]

\* the second step: GetActiveAPI's search, GetConfig's copy of the APIs,
\* RemoveAPI's cm.config.APIs = newAPIs
LkBody2(c) ==
  CASE c.op = "GetActive" ->
         [cfg |-> Cfg,
          th |-> IF HasID(Cfg.APIs, c.loc)
                 THEN [c EXCEPT !.pc = "unlock", !.ret = FirstWithID(Cfg.APIs, c.loc)]
                 ELSE [c EXCEPT !.pc = "unlock", !.err = ErrActiveNotFound]]
    [] c.op = "GetConfig" ->
         [cfg |-> Cfg,
          th |-> [c EXCEPT !.pc = "unlock",
                           !.rcfg = [APIs |-> Cfg.APIs, ActiveAPI |-> c.loc]]]
    [] c.op = "Remove" ->
         [cfg |-> [Cfg EXCEPT !.APIs = KeepOthers(Cfg.APIs, c.id)],
          th |-> [c EXCEPT !.pc = "unlock"]]

\* a step of a method's body; ReloadConfig's assignment puts the new
\* configuration where cm.config points
LkStep(t) ==
  /\ th[t].pc \in {"cs1", "cs2"}
  /\ LET r == IF th[t].pc = "cs1" THEN LkBody1(th[t]) ELSE LkBody2(th[t])
     IN /\ heap' = [heap EXCEPT ![cm_config] = r.cfg]
        /\ th' = Observe([th EXCEPT ![t] = r.th], r.cfg)
  /\ UNCHANGED <<cm_config, s_config, call, lastOK, h_pc, h_api, h_fresh, resp>>
  /\ UNCHANGED <<mu, held>>
  /\ UNCHANGED <<lifeVars, feVars, lsVars, rqVars>>

\* the deferred cm.mu.RUnlock() / cm.mu.Unlock(): the method returns
LkRelease(t) ==
  /\ th[t].pc = "unlock"
  /\ mu' = IF th[t].op \in Readers
           THEN [mu EXCEPT !.r = @ \ {t}]
           ELSE [mu EXCEPT !.w = "none"]
  /\ th' = Observe([th EXCEPT ![t].pc = "idle"], Cfg)
  /\ UNCHANGED held
  /\ UNCHANGED <<rtVars, lifeVars, feVars, lsVars, rqVars>>

LockInit == InitWith(SrvInitConfigs, "none")

LockNext ==
  \/ \E t \in Threads : LkBegin(t)
  \/ \E t \in Threads : LkAcquire(t)
  \/ \E t \in Threads : LkStep(t)
  \/ \E t \in Threads : LkRelease(t)

LockSpec == LockInit /\ [][LockNext]_vars

(***************************************************************************)
(* AliasSpec: the routing table and a caller that keeps what it handed in  *)
(* and what it got back. NewConfigManager and ReloadConfig store the       *)
(* caller's pointer, so the caller still reaches the object cm.config      *)
(* names; GetActiveAPI, GetAllAPIs and GetConfig copy (apiCopy := api,     *)
(* make + copy), and APIConfig has no field of reference type, so held is  *)
(* a value of the caller's own.                                            *)
(***************************************************************************)
EvilURL == "http://evil"

\* the caller calls an accessor and keeps the result
AlGet ==
  /\ \E k \in {"api", "apis", "cfg"} :
       held' = CASE k = "api" -> [NoHeld EXCEPT !.kind = "api", !.api = GetActiveAPI(Cfg).api]
                 [] k = "apis" -> [NoHeld EXCEPT !.kind = "apis", !.cfg = [NoCfg EXCEPT !.APIs = Cfg.APIs]]
                 [] k = "cfg" -> [NoHeld EXCEPT !.kind = "cfg", !.cfg = Cfg]
  /\ UNCHANGED <<mu, th>>
  /\ UNCHANGED <<rtVars, lifeVars, feVars, lsVars, rqVars>>

\* the caller writes to the value an accessor returned
AlMutateHeld ==
  /\ held.kind # "none"
  /\ held' = CASE held.kind = "api" -> [held EXCEPT !.api.URL = EvilURL]
               [] held.kind = "apis" ->
                    [held EXCEPT !.cfg.APIs =
                       [i \in 1..Len(@) |-> [@[i] EXCEPT !.URL = EvilURL]]]
               [] held.kind = "cfg" ->
                    [held EXCEPT !.cfg.ActiveAPI = "zz",
                                 !.cfg.APIs = [i \in 1..Len(@) |-> [@[i] EXCEPT !.URL = EvilURL]]]
  /\ held' # held
  /\ UNCHANGED <<mu, th>>
  /\ UNCHANGED <<rtVars, lifeVars, feVars, lsVars, rqVars>>

\* the caller writes to the configuration object it passed to
\* NewConfigManager or to ReloadConfig: the object cm.config points to
AlMutatePassed ==
  /\ \E w \in {"active", "url"} :
       heap' = [heap EXCEPT ![cm_config] =
                  IF w = "active"
                  THEN [@ EXCEPT !.ActiveAPI = "zz"]
                  ELSE [@ EXCEPT !.APIs = [i \in 1..Len(@) |-> [@[i] EXCEPT !.URL = EvilURL]]]]
  /\ heap' # heap
  /\ UNCHANGED <<cm_config, s_config, call, lastOK, h_pc, h_api, h_fresh, resp>>
  /\ UNCHANGED <<lifeVars, extVars>>

AlSwitch == SwitchOp(SrvIDs, TRUE)

AlRemove == RemoveOp(SrvIDs, TRUE)

AlReload == ReloadOp(LkNewConfigs, TRUE)

AliasInit == InitWith(SrvInitConfigs, "none")

AliasNext ==
  \/ AlSwitch
  \/ AlRemove
  \/ AlReload
  \/ AlGet
  \/ AlMutateHeld
  \/ AlMutatePassed

AliasSpec == AliasInit /\ [][AliasNext]_vars

(***************************************************************************)
(* FwdSpec: one ForwardEngine and its ForwardRequest calls, one at a time, *)
(* for requests whose method and URL make a valid outbound request.        *)
(*                                                                         *)
(* An upstream attempt (client.Do) ends in an outcome: a response with a   *)
(* status code, or a transport error with a message. fe_log holds the      *)
(* outcomes of the attempts of the call in progress (or of the last call), *)
(* fe_attempt the loop variable, fe_lastErr the local lastErr, fe_result   *)
(* what the call returned: resp is the status of the returned response (0: *)
(* nil), err the returned error and the error it wraps.                    *)
(***************************************************************************)
RetryCounts == -1..MaxRetry

Statuses == {200, 302, 404, 500, 501, 502, 503, 504}

\* messages of the transport errors client.Do returns
ErrMsgs == {"dial tcp: connection refused", "context deadline exceeded",
            "connect: network is unreachable", "tls: handshake failure"}
ErrCanceled == "context canceled"

\* strings.Contains(errStr, netErr) for the messages above
Contains(errStr, netErr) ==
  \/ errStr = "dial tcp: connection refused" /\ netErr = "connection refused"
  \/ errStr = "context deadline exceeded" /\ netErr = "deadline exceeded"

networkErrors == {"connection refused", "connection reset", "i/o timeout",
                  "deadline exceeded", "no such host", "network unreachable"}

retryableStatusCodes == {500, 502, 503, 504}

\* shouldRetry(statusCode, err); err = "" stands for nil
shouldRetry_NotOn503(statusCode, err) ==
  IF err # "" THEN \E netErr \in networkErrors : Contains(err, netErr)
  ELSE statusCode \in {500, 502, 504}

shouldRetry_On404(statusCode, err) ==
  IF err # "" THEN \E netErr \in networkErrors : Contains(err, netErr)
  ELSE statusCode \in {404, 500, 502, 503, 504}

shouldRetry(statusCode, err) ==
  IF err # "" THEN \E netErr \in networkErrors : Contains(err, netErr)
  ELSE statusCode \in retryableStatusCodes

Status(code) == [kind |-> "status", code |-> code, msg |-> ""]
NetErr(msg) == [kind |-> "neterr", code |-> 0, msg |-> msg]

\* what client.Do can give: with ctx done the transport gives ctx's error
Outcomes ==
  IF ctx_done THEN {NetErr(ErrCanceled)}
  ELSE { Status(c) : c \in Statuses } \cup { NetErr(e) : e \in ErrMsgs }

\* req.Body of the inbound request: a reader over these bytes
Bodies == {<<>>, <<1, 2>>}

\* how many bytes of req.Body the transport reads during one attempt: all
\* that is left when the upstream answered, any prefix when the attempt
\* failed in the transport
BodyRead(o, left) ==
  IF o.kind = "status" THEN {Len(left)} ELSE 0..Len(left)

\* http.NewRequestWithContext(ctx, req.Method, targetURL, req.Body): every
\* attempt reads from the one reader, which is never rewound
SendBody_Rewound(b, k) ==
  [b EXCEPT !.sent = Append(@, SubSeq(b.in, 1, Len(b.in)))]

SendBody(b, k) ==
  [b EXCEPT !.sent = Append(@, SubSeq(b.left, 1, k)),
            !.left = SubSeq(b.left, k + 1, Len(b.left))]

\* the loop condition: attempt < f.retryCount
LoopContinues_OneMore(attempt, retryCount) == attempt <= retryCount

LoopContinues(attempt, retryCount) == attempt < retryCount

ErrMaxRetries == "max retries exceeded"

\* after the loop: failedReqs++ and the error wrapping lastErr
Exhausted_Uncounted(lastErr) ==
  /\ fe_result' = [resp |-> 0, err |-> [kind |-> ErrMaxRetries, wraps |-> lastErr]]
  /\ fe_pc' = "done"
  /\ UNCHANGED <<fe_attempt, fe_stats>>

Exhausted(lastErr) ==
  /\ fe_stats' = [fe_stats EXCEPT !.failed = @ + 1]
  /\ fe_result' = [resp |-> 0, err |-> [kind |-> ErrMaxRetries, wraps |-> lastErr]]
  /\ fe_pc' = "done"
  /\ UNCHANGED fe_attempt

\* continue: attempt++, the loop condition, and for a further attempt
\* totalRetries++ before the backoff
Continue(lastErr) ==
  IF LoopContinues(fe_attempt + 1, fe_retryCount)
  THEN /\ fe_attempt' = fe_attempt + 1
       /\ fe_stats' = [fe_stats EXCEPT !.retries = @ + 1]
       /\ fe_pc' = "backoff"
       /\ UNCHANGED fe_result
  ELSE Exhausted(lastErr)

\* ForwardRequest is called: totalRequests++, and the loop is entered or not
FwdBegin ==
  /\ fe_pc = "idle"
  /\ fe_stats.total < MaxCalls
  /\ fe_attempt' = 0
  /\ fe_log' = <<>>
  /\ \E b \in Bodies : fe_body' = [in |-> b, left |-> b, sent |-> <<>>]
  /\ fe_lastErr' = NoOutcome
  /\ \E b \in BOOLEAN : ctx_done' = b
  /\ IF LoopContinues(0, fe_retryCount)
     THEN /\ fe_stats' = [fe_stats EXCEPT !.total = @ + 1]
          /\ fe_pc' = "attempt"
          /\ fe_result' = NoResult
     ELSE /\ fe_stats' = [fe_stats EXCEPT !.total = @ + 1, !.failed = @ + 1]
          /\ fe_result' = [resp |-> 0, err |-> [kind |-> ErrMaxRetries, wraps |-> NoOutcome]]
          /\ fe_pc' = "done"
  /\ UNCHANGED fe_retryCount
  /\ UNCHANGED <<rtVars, lifeVars, lkVars, lsVars, rqVars>>

\* one upstream attempt and what the loop body does with its outcome
FwdAttempt ==
  /\ fe_pc = "attempt"
  /\ \E o \in Outcomes :
       /\ fe_log' = Append(fe_log, o)
       /\ \E k \in BodyRead(o, fe_body.left) : fe_body' = SendBody(fe_body, k)
       /\ IF o.kind = "neterr"
          THEN /\ fe_lastErr' = o
               /\ IF shouldRetry(0, o.msg) THEN Continue(o) ELSE Exhausted(o)
          ELSE IF shouldRetry(o.code, "")
          THEN /\ fe_lastErr' = o
               /\ Continue(o)
          ELSE /\ fe_stats' = [fe_stats EXCEPT !.ok = @ + 1]
               /\ fe_result' = [resp |-> o.code, err |-> NoFwdErr]
               /\ fe_pc' = "done"
               /\ UNCHANGED <<fe_attempt, fe_lastErr>>
  /\ UNCHANGED <<fe_retryCount, ctx_done>>
  /\ UNCHANGED <<rtVars, lifeVars, lkVars, lsVars, rqVars>>

\* the select of the backoff: the timer fires. time.After(delay) is created
\* by the select with delay >= 100 ms, so with ctx already done only the
\* ctx.Done() case is ready
FwdBackoffElapsed ==
  /\ fe_pc = "backoff"
  /\ ~ctx_done
  /\ fe_pc' = "attempt"
  /\ UNCHANGED <<fe_retryCount, fe_attempt, fe_lastErr, fe_result, fe_stats, fe_log, fe_body, ctx_done>>
  /\ UNCHANGED <<rtVars, lifeVars, lkVars, lsVars, rqVars>>

\* the select of the backoff: ctx.Done() is ready
FwdBackoffCancelled_Proceeds ==
  /\ fe_pc = "backoff"
  /\ ctx_done
  /\ fe_pc' = "attempt"
  /\ UNCHANGED <<fe_retryCount, fe_attempt, fe_lastErr, fe_result, fe_stats, fe_log, fe_body, ctx_done>>
  /\ UNCHANGED <<rtVars, lifeVars, lkVars, lsVars, rqVars>>

FwdBackoffCancelled ==
  /\ fe_pc = "backoff"
  /\ ctx_done
  /\ fe_stats' = [fe_stats EXCEPT !.failed = @ + 1]
  /\ fe_result' = [resp |-> 0, err |-> [kind |-> ErrCanceled, wraps |-> NoOutcome]]
  /\ fe_pc' = "done"
  /\ UNCHANGED <<fe_retryCount, fe_attempt, fe_lastErr, fe_log, fe_body, ctx_done>>
  /\ UNCHANGED <<rtVars, lifeVars, lkVars, lsVars, rqVars>>

\* the caller cancels ctx while the call is in progress
CtxCancel ==
  /\ fe_pc \in {"attempt", "backoff"}
  /\ ~ctx_done
  /\ ctx_done' = TRUE
  /\ UNCHANGED <<fe_retryCount, fe_pc, fe_attempt, fe_lastErr, fe_result, fe_stats, fe_log, fe_body>>
  /\ UNCHANGED <<rtVars, lifeVars, lkVars, lsVars, rqVars>>

\* ForwardRequest returns
FwdReturn ==
  /\ fe_pc = "done"
  /\ fe_pc' = "idle"
  /\ UNCHANGED <<fe_retryCount, fe_attempt, fe_lastErr, fe_result, fe_stats, fe_log, fe_body, ctx_done>>
  /\ UNCHANGED <<rtVars, lifeVars, lkVars, lsVars, rqVars>>

\* NewForwardEngine(apiConfig): retryCount is apiConfig.RetryCount as it is
FwdInit ==
  /\ RtInit({[APIs |-> <<>>, ActiveAPI |-> ""]}, "none")
  /\ LifeIdle
  /\ LockIdle
  /\ LsnIdle
  /\ RqIdle
  /\ \E n \in RetryCounts : FwdIdle(n)

FwdNext ==
  \/ FwdBegin
  \/ FwdAttempt
  \/ FwdBackoffElapsed
  \/ FwdBackoffCancelled
  \/ CtxCancel
  \/ FwdReturn

FwdSpec == FwdInit /\ [][FwdNext]_vars

(***************************************************************************)
(* LsnSpec: the listener's Start and Stop, called by two goroutines, and   *)
(* the requests in flight.                                                 *)
(*                                                                         *)
(* isRunning is s.isRunning; sock the listening socket ("none": never      *)
(* bound, "open", "closed"); s_mu the goroutine holding s.mu; inflight the *)
(* requests accepted and not yet answered. lt[g] is the call of goroutine  *)
(* g: op, pc, its result res, b0: s.isRunning when the call began, and ov:  *)
(* the call is a Start that began while another Start, itself begun on a   *)
(* listener not running, had not returned (a returned call's ov is cleared *)
(* when the other goroutine calls again).                                  *)
(***************************************************************************)
\* Start's test: if s.isRunning
StartRefused_Never == FALSE

StartRefused == isRunning

\* Stop's test: if !s.isRunning
StopRefused_Never == FALSE

StopRefused == ~isRunning

\* a goroutine calls Start or Stop
LsBegin(g) ==
  /\ lt[g].pc = "idle"
  /\ \E op \in {"start", "stop"} :
       lt' = [h \in LThreads |->
                IF h = g
                THEN [op |-> op, pc |-> "lock", res |-> "", b0 |-> isRunning,
                      ov |-> /\ op = "start" /\ ~isRunning
                             /\ \E k \in LThreads \ {g} :
                                   /\ lt[k].op = "start" /\ lt[k].pc # "idle"
                                   /\ ~lt[k].b0]
                ELSE IF lt[h].pc = "idle" THEN [lt[h] EXCEPT !.ov = FALSE]
                ELSE lt[h]]
  /\ UNCHANGED <<isRunning, sock, s_mu, inflight>>
  /\ UNCHANGED <<rtVars, lifeVars, lkVars, feVars, rqVars>>

\* s.mu.Lock() returns
LsAcquire(g) ==
  /\ lt[g].pc = "lock"
  /\ s_mu = "none"
  /\ s_mu' = g
  /\ lt' = [lt EXCEPT ![g].pc = "check"]
  /\ UNCHANGED <<isRunning, sock, inflight>>
  /\ UNCHANGED <<rtVars, lifeVars, lkVars, feVars, rqVars>>

\* Start: already running, or on to net.Listen
StartCheck(g) ==
  /\ lt[g].op = "start" /\ lt[g].pc = "check"
  /\ lt' = [lt EXCEPT ![g] = IF StartRefused
                             THEN [@ EXCEPT !.pc = "unlock", !.res = "AlreadyRunning"]
                             ELSE [@ EXCEPT !.pc = "listen"]]
  /\ UNCHANGED <<isRunning, sock, s_mu, inflight>>
  /\ UNCHANGED <<rtVars, lifeVars, lkVars, feVars, rqVars>>

\* Start: net.Listen binds the port, or fails when it cannot be bound
StartListen(g) ==
  /\ lt[g].op = "start" /\ lt[g].pc = "listen"
  /\ \E bound \in BOOLEAN :
       IF bound
       THEN sock' = "open" /\ lt' = [lt EXCEPT ![g].pc = "serve"]
       ELSE /\ lt' = [lt EXCEPT ![g] = [@ EXCEPT !.pc = "unlock", !.res = "ListenFailed"]]
            /\ UNCHANGED sock
  /\ UNCHANGED <<isRunning, s_mu, inflight>>
  /\ UNCHANGED <<rtVars, lifeVars, lkVars, feVars, rqVars>>

\* Start: go s.server.Serve(listener); s.isRunning = true
StartServe(g) ==
  /\ lt[g].op = "start" /\ lt[g].pc = "serve"
  /\ isRunning' = TRUE
  /\ lt' = [lt EXCEPT ![g] = [@ EXCEPT !.pc = "unlock", !.res = "ok"]]
  /\ UNCHANGED <<sock, s_mu, inflight>>
  /\ UNCHANGED <<rtVars, lifeVars, lkVars, feVars, rqVars>>

\* Stop: not running, or on to the shutdown
StopCheck(g) ==
  /\ lt[g].op = "stop" /\ lt[g].pc = "check"
  /\ lt' = [lt EXCEPT ![g] = IF StopRefused
                             THEN [@ EXCEPT !.pc = "unlock", !.res = "NotRunning"]
                             ELSE [@ EXCEPT !.pc = "shutdown"]]
  /\ UNCHANGED <<isRunning, sock, s_mu, inflight>>
  /\ UNCHANGED <<rtVars, lifeVars, lkVars, feVars, rqVars>>

\* Stop: s.server.Shutdown(ctx) closes the listening socket at once
StopShutdown(g) ==
  /\ lt[g].op = "stop" /\ lt[g].pc = "shutdown"
  /\ sock' = "closed"
  /\ lt' = [lt EXCEPT ![g].pc = "drain"]
  /\ UNCHANGED <<isRunning, s_mu, inflight>>
  /\ UNCHANGED <<rtVars, lifeVars, lkVars, feVars, rqVars>>

\* Stop: Shutdown returns nil once no request is in flight; s.isRunning = false
StopDrained(g) ==
  /\ lt[g].op = "stop" /\ lt[g].pc = "drain"
  /\ inflight = 0
  /\ isRunning' = FALSE
  /\ lt' = [lt EXCEPT ![g] = [@ EXCEPT !.pc = "unlock", !.res = "ok"]]
  /\ UNCHANGED <<sock, s_mu, inflight>>
  /\ UNCHANGED <<rtVars, lifeVars, lkVars, feVars, rqVars>>

\* Stop: the 5 seconds of ctx pass with requests still in flight: Shutdown
\* returns ctx's error and Stop returns it, s.isRunning left as it is
StopTimeout(g) ==
  /\ lt[g].op = "stop" /\ lt[g].pc = "drain"
  /\ inflight > 0
  /\ lt' = [lt EXCEPT ![g] = [@ EXCEPT !.pc = "unlock", !.res = "ShutdownFailed"]]
  /\ UNCHANGED <<isRunning, sock, s_mu, inflight>>
  /\ UNCHANGED <<rtVars, lifeVars, lkVars, feVars, rqVars>>

\* the deferred s.mu.Unlock(): the call returns
LsRelease(g) ==
  /\ lt[g].pc = "unlock"
  /\ s_mu' = "none"
  /\ lt' = [lt EXCEPT ![g].pc = "idle"]
  /\ UNCHANGED <<isRunning, sock, inflight>>
  /\ UNCHANGED <<rtVars, lifeVars, lkVars, feVars, rqVars>>

\* the serving goroutine accepts a connection and its handler starts
Accept ==
  /\ sock = "open" /\ isRunning
  /\ inflight < MaxInflight
  /\ inflight' = inflight + 1
  /\ UNCHANGED <<isRunning, sock, s_mu, lt>>
  /\ UNCHANGED <<rtVars, lifeVars, lkVars, feVars, rqVars>>

\* a handler writes its response and ends
Finish ==
  /\ inflight > 0
  /\ inflight' = inflight - 1
  /\ UNCHANGED <<isRunning, sock, s_mu, lt>>
  /\ UNCHANGED <<rtVars, lifeVars, lkVars, feVars, rqVars>>

LsnInit ==
  /\ RtInit({[APIs |-> <<>>, ActiveAPI |-> ""]}, "none")
  /\ LifeIdle
  /\ ExtIdle

LsnNext ==
  \/ \E g \in LThreads : LsBegin(g)
  \/ \E g \in LThreads : LsAcquire(g)
  \/ \E g \in LThreads : StartCheck(g)
  \/ \E g \in LThreads : StartListen(g)
  \/ \E g \in LThreads : StartServe(g)
  \/ \E g \in LThreads : StopCheck(g)
  \/ \E g \in LThreads : StopShutdown(g)
  \/ \E g \in LThreads : StopDrained(g)
  \/ \E g \in LThreads : StopTimeout(g)
  \/ \E g \in LThreads : LsRelease(g)
  \/ Accept
  \/ Finish

LsnSpec == LsnInit /\ [][LsnNext]_vars

\* the listener's state as the code holds it: Starting while a Start has
\* bound the socket and not yet set s.isRunning, Stopping while a Stop is in
\* its shutdown, else Running or Stopped as s.isRunning says
LState ==
  IF \E g \in LThreads : lt[g].op = "stop" /\ lt[g].pc \in {"shutdown", "drain"}
  THEN "Stopping"
  ELSE IF \E g \in LThreads : lt[g].op = "start" /\ lt[g].pc = "serve"
  THEN "Starting"
  ELSE IF isRunning THEN "Running" ELSE "Stopped"

(***************************************************************************)
(* The listener's handler in detail: handleRequest and forwardRequest on   *)
(* one request at a time.                                                  *)
(*                                                                         *)
(* rw is the http.ResponseWriter of the request: status is the status code *)
(* sent (0: none yet), ctype what wrote the header ("text/plain": the      *)
(* listener's http.Error, "upstream": the relay of the upstream's          *)
(* headers), body the texts written after it, extra the WriteHeader calls  *)
(* made after the header was sent, which net/http ignores. outLog holds    *)
(* the outbound calls of the request, each with the upstream's outcome o.  *)
(***************************************************************************)
Methods == {"GET", "POST"}
Paths == {"/ping", "/v1/chat"}
Queries == {"", "q=1"}
Inbound == [method : Methods, path : Paths, query : Queries]

\* the targets of the listener's configuration: one with a bare base URL, one
\* whose base URL has a path prefix
RqAPIs ==
  { [ID |-> "a", URL |-> "http://a1", APIKey |-> "k1"],
    [ID |-> "a", URL |-> "http://a1/v1", APIKey |-> "k1"] }

RqB == [ID |-> "b", URL |-> "http://b", APIKey |-> "kb"]

RqInitConfigs ==
  { [APIs |-> <<x, RqB>>, ActiveAPI |-> act] : x \in RqAPIs, act \in {"", "a", "zz"} }

\* url.Parse on the base URLs above: scheme and host, and the path
ParseURL(u) ==
  IF u = "http://a1/v1" THEN [host |-> "http://a1", path |-> "/v1"]
  ELSE [host |-> u, path |-> ""]

\* (*url.URL).String() of a URL with scheme, host, path and query
URLString(t) ==
  t.host \o t.path \o (IF t.query = "" THEN "" ELSE "?" \o t.query)

\* Server.forwardRequest: targetURL.Path = r.URL.Path; targetURL.RawQuery =
\* r.URL.RawQuery; targetURL.String()
ServerTargetURL(api, in) ==
  URLString([host |-> ParseURL(api.URL).host, path |-> in.path, query |-> in.query])

\* ForwardEngine.ForwardRequest: f.apiConfig.URL + req.URL.Path, then "?" and
\* the query when there is one
EngineTargetURL(api, in) ==
  api.URL \o in.path \o (IF in.query # "" THEN "?" \o in.query ELSE "")

\* http.Error(w, msg, code): header and status when none was sent yet, else
\* the WriteHeader is ignored and the text is added to what was written
HttpError(wr, msg, code) ==
  IF wr.status = 0
  THEN [status |-> code, ctype |-> "text/plain", body |-> <<msg>>, extra |-> 0]
  ELSE [wr EXCEPT !.body = Append(@, msg), !.extra = @ + 1]

\* the server accepts a request and handleRequest starts:
\* atomic.AddInt64(&s.requestCount, 1)
RqAccept(ins) ==
  /\ r_pc \in {"idle", "done"}
  /\ sock = "open" /\ isRunning
  /\ requestCount < MaxReqs
  /\ \E in \in ins : r_in' = in
  /\ requestCount' = requestCount + 1
  /\ r_pc' = "resolve"
  /\ r_api' = NoAPI
  /\ r_at' = [errors |-> errorCount, upd |-> upd,
               stop |-> \E g \in LThreads : lt[g].op = "stop" /\ lt[g].pc # "idle"]
  /\ rw' = NoW
  /\ outLog' = <<>>
  /\ inflight' = inflight + 1
  /\ UNCHANGED <<errorCount, upd, isRunning, sock, s_mu, lt>>
  /\ UNCHANGED <<rtVars, lifeVars, lkVars, feVars, gsVars>>

RqBegin == RqAccept(Inbound)

\* handleRequest's error path: the error counter, then http.Error with 502
RqFail_CountsTwice(msg) ==
  /\ errorCount' = errorCount + 2
  /\ rw' = HttpError(rw, msg, 502)
  /\ r_pc' = "done"
  /\ inflight' = inflight - 1

RqFail(msg) ==
  /\ errorCount' = errorCount + 1
  /\ rw' = HttpError(rw, msg, 502)
  /\ r_pc' = "done"
  /\ inflight' = inflight - 1

\* handleRequest: s.getActiveAPI() under s.mu.RLock(), which waits while a
\* Start or a Stop holds s.mu
RqResolve ==
  /\ r_pc = "resolve"
  /\ s_mu = "none"
  /\ IF getActiveAPI(SrvCfg).err # ErrNone
     THEN /\ RqFail("no active API configured: " \o getActiveAPI(SrvCfg).err)
          /\ UNCHANGED r_api
     ELSE /\ r_api' = getActiveAPI(SrvCfg).api
          /\ r_pc' = "forward"
          /\ UNCHANGED <<errorCount, rw, inflight>>
  /\ UNCHANGED <<r_in, r_at, requestCount, outLog, upd, isRunning, sock, s_mu, lt>>
  /\ UNCHANGED <<rtVars, lifeVars, lkVars, feVars, gsVars>>

\* forwardRequest: the one client.Do; a transport error is returned to
\* handleRequest, a response has its headers and status relayed
RqDo ==
  /\ r_pc = "forward"
  /\ \E o \in Outcomes :
       /\ outLog' = Append(outLog, [url |-> ServerTargetURL(r_api, r_in),
                                    key |-> r_api.APIKey,
                                    method |-> r_in.method, o |-> o])
       /\ IF o.kind = "neterr"
          THEN RqFail("failed to forward request: request to target failed")
          ELSE /\ rw' = [status |-> o.code, ctype |-> "upstream",
                         body |-> <<>>, extra |-> 0]
               /\ r_pc' = "copy"
               /\ UNCHANGED <<errorCount, inflight>>
  /\ UNCHANGED <<r_api, r_in, r_at, requestCount, upd, isRunning, sock, s_mu, lt>>
  /\ UNCHANGED <<rtVars, lifeVars, lkVars, feVars, gsVars>>

\* forwardRequest: io.Copy(w, resp.Body) ends, or fails part of the way and
\* the error is returned to handleRequest
RqCopy ==
  /\ r_pc = "copy"
  /\ \E copied \in BOOLEAN :
       IF copied
       THEN /\ rw' = [rw EXCEPT !.body = Append(@, "upstream body")]
            /\ r_pc' = "done"
            /\ inflight' = inflight - 1
            /\ UNCHANGED errorCount
       ELSE RqFail("failed to forward request: failed to copy response body")
  /\ UNCHANGED <<r_api, r_in, r_at, requestCount, outLog, upd, isRunning, sock, s_mu, lt>>
  /\ UNCHANGED <<rtVars, lifeVars, lkVars, feVars, gsVars>>

\* Server.UpdateConfig(apiConfig): takes s.mu and returns nil
RqUpdateConfig ==
  /\ s_mu = "none"
  /\ \E t \in RqAPIs \cup {RqB} : upd' = t
  /\ UNCHANGED <<r_pc, r_api, r_in, r_at, rw, requestCount, errorCount, outLog>>
  /\ UNCHANGED <<rtVars, lifeVars, lkVars, feVars, lsVars, gsVars>>

\* a listener that NewServer built on the configuration and Start has started
LsnRunning ==
  /\ isRunning = TRUE
  /\ sock = "open"
  /\ s_mu = "none"
  /\ lt = [g \in LThreads |-> LtIdle]
  /\ inflight = 0

\* ReqSpec: requests to a running listener, one after the other; the active
\* target's RetryCount is fe_retryCount
ReqInit ==
  /\ RtInit(RqInitConfigs, "cfg0")
  /\ LifeIdle
  /\ LockIdle
  /\ \E n \in 1..MaxRetry : FwdIdle(n)
  /\ LsnRunning
  /\ RqIdle

ReqNext ==
  \/ RqBegin
  \/ RqResolve
  \/ RqDo
  \/ RqCopy
  \/ RqUpdateConfig

ReqSpec == ReqInit /\ [][ReqNext]_vars

(***************************************************************************)
(* DrainSpec: one goroutine calls Start and Stop while the listener        *)
(* handles requests whose upstream answers within the drain window of      *)
(* Stop: no step of the handler takes as long as the window, so the 5      *)
(* seconds of Stop's context run out only when the handler cannot move.    *)
(***************************************************************************)
DrInbound == {[method |-> "GET", path |-> "/ping", query |-> ""]}

DrConfigs == { c \in RqInitConfigs : c.APIs[1].URL = "http://a1" /\ c.ActiveAPI # "zz" }

DrBegin == RqAccept(DrInbound)

\* the handler waits for s.mu, which a Start or Stop call holds
HandlerBlocked == r_pc = "resolve" /\ s_mu # "none"

DrTimeout(g) == HandlerBlocked /\ StopTimeout(g)

DrainInit ==
  /\ RtInit(DrConfigs, "cfg0")
  /\ LifeIdle
  /\ ExtIdle

DrainNext ==
  \/ LsBegin("g1")
  \/ LsAcquire("g1")
  \/ StartCheck("g1")
  \/ StartListen("g1")
  \/ StartServe("g1")
  \/ StopCheck("g1")
  \/ StopShutdown("g1")
  \/ StopDrained("g1")
  \/ DrTimeout("g1")
  \/ LsRelease("g1")
  \/ DrBegin
  \/ RqResolve
  \/ RqDo
  \/ RqCopy

DrainSpec == DrainInit /\ [][DrainNext]_vars

(***************************************************************************)
(* StatsSpec: GetStats is called while the running listener handles        *)
(* requests. GetStats holds s.mu for reading and loads the two counters    *)
(* one after the other, each load atomic; the handler's increments are     *)
(* atomic and do not take s.mu.                                            *)
(***************************************************************************)
\* GetStats: s.mu.RLock() and stats.RequestCount = atomic.LoadInt64(&s.requestCount)
GetStatsLoadRequests ==
  /\ gs_pc \in {"idle", "done"}
  /\ s_mu = "none"
  /\ gs_snap' = [RequestCount |-> requestCount, ErrorCount |-> 0]
  /\ gs_pc' = "errors"
  /\ UNCHANGED gs_at
  /\ UNCHANGED <<r_pc, r_api, r_in, r_at, rw, requestCount, errorCount, outLog, upd>>
  /\ UNCHANGED <<rtVars, lifeVars, lkVars, feVars, lsVars>>

\* GetStats: stats.ErrorCount = atomic.LoadInt64(&s.errorCount), and the
\* snapshot is returned
GetStatsLoadErrors ==
  /\ gs_pc = "errors"
  /\ gs_snap' = [gs_snap EXCEPT !.ErrorCount = errorCount]
  /\ gs_at' = requestCount
  /\ gs_pc' = "done"
  /\ UNCHANGED <<r_pc, r_api, r_in, r_at, rw, requestCount, errorCount, outLog, upd>>
  /\ UNCHANGED <<rtVars, lifeVars, lkVars, feVars, lsVars>>

StatsInit ==
  /\ RtInit(DrConfigs, "cfg0")
  /\ LifeIdle
  /\ LockIdle
  /\ FwdIdle(1)
  /\ LsnRunning
  /\ RqIdle

StatsNext ==
  \/ DrBegin
  \/ RqResolve
  \/ RqDo
  \/ RqCopy
  \/ GetStatsLoadRequests
  \/ GetStatsLoadErrors

StatsSpec == StatsInit /\ [][StatsNext]_vars

(***************************************************************************)
(* Claims about the routing table (Spec)                                   *)
(***************************************************************************)
\* the manager's configuration after the step
CfgNext == heap'[cm_config']

\* a call was made in this step
Called(op) == call'.n # call.n /\ call'.op = op

\* apis without its i-th target, the others in their order
DropAt(apis, i) == SubSeq(apis, 1, i - 1) \o SubSeq(apis, i + 1, Len(apis))

\* C1: at the return of every Switch, Add, Remove and Reload call, successful
\* or failing, the active id is empty or is the id of a target in the table.
C1_ActiveNamesTarget ==
  Cfg.ActiveAPI = "" \/ \E i \in 1..Len(Cfg.APIs) : Cfg.APIs[i].ID = Cfg.ActiveAPI

\* the active target was removed while other targets stayed
C1_Witness ==
  /\ call.op = "Remove" /\ call.err = ErrNone
  /\ lastOK.wasActive
  /\ Cfg.ActiveAPI = ""
  /\ Cfg.APIs # <<>>

\* C2: after any sequence of Add, Remove, Switch and Reload calls no two
\* targets of the table have the same id.
C2_UniqueIDs ==
  \A i, j \in 1..Len(Cfg.APIs) : i # j => Cfg.APIs[i].ID # Cfg.APIs[j].ID

C7_SwitchUnknown ==
  [][(Called("Switch") /\ ~HasID(Cfg.APIs, call'.id))
       => (call'.err = ErrAPINotFound /\ CfgNext = Cfg)]_vars

\* a Switch failed on a table that has targets and an active one
C7_Witness ==
  /\ call.op = "Switch" /\ call.err = ErrAPINotFound
  /\ Cfg.ActiveAPI # ""
  /\ ~HasID(Cfg.APIs, call.id)

\* C8: Add(target) with an id already in the table returns AlreadyExists and
\* changes neither the targets nor the active id; with a new id it appends the
\* target and changes neither the existing targets nor the active id.
C8_Add ==
  [][Called("Add")
       => IF HasID(Cfg.APIs, call'.api.ID)
          THEN call'.err = ErrAlreadyExists /\ CfgNext = Cfg
          ELSE /\ call'.err = ErrNone
               /\ CfgNext.APIs = Cfg.APIs \o <<call'.api>>
               /\ CfgNext.ActiveAPI = Cfg.ActiveAPI]_vars

\* an Add was refused for its id while the table holds another target of that id
C8_Witness ==
  /\ call.op = "Add" /\ call.err = ErrAlreadyExists
  /\ \E i \in 1..Len(Cfg.APIs) :
       Cfg.APIs[i].ID = call.api.ID /\ Cfg.APIs[i] # call.api

\* C9: Remove(id) with an unknown id returns NotFound and changes nothing; with
\* a known id it removes exactly one target, one of that id, keeps the others
\* in their order, and changes the active id only when it was id.
C9_Remove ==
  [][Called("Remove")
       => IF ~HasID(Cfg.APIs, call'.id)
          THEN call'.err = ErrRemoveNotFound /\ CfgNext = Cfg
          ELSE /\ call'.err = ErrNone
               /\ \E i \in 1..Len(Cfg.APIs) :
                    /\ Cfg.APIs[i].ID = call'.id
                    /\ CfgNext.APIs = DropAt(Cfg.APIs, i)
               /\ (Cfg.ActiveAPI # call'.id => CfgNext.ActiveAPI = Cfg.ActiveAPI)]_vars

(***************************************************************************)
(* Claims about the routing table under its lock (LockSpec)                *)
(***************************************************************************)
\* goroutine t is inside a method's critical section
InCS(t) == th[t].pc \in {"cs1", "cs2", "unlock"}

\* C11: a Reload whose table has a non-empty active id naming none of its
\* targets returns an error and leaves the table as it was; any other Reload
\* installs the new targets and the new active id, and a GetConfig reader gets
\* the targets and the active id of one table, never a mix of two.
C11_ReloadAtomic ==
  [][\A t \in Threads :
       /\ (th[t].op = "Reload" /\ th[t].pc = "cs1" /\ th'[t].pc = "unlock")
            => IF th[t].cfg.ActiveAPI # ""
                  /\ ~HasID(th[t].cfg.APIs, th[t].cfg.ActiveAPI)
               THEN th'[t].err = ErrReloadActive /\ CfgNext = Cfg
               ELSE th'[t].err = ErrNone /\ CfgNext = th[t].cfg
       /\ (th[t].op = "GetConfig" /\ th[t].pc = "cs2" /\ th'[t].pc = "unlock")
            => th'[t].rcfg = Cfg]_vars

\* a GetConfig that waited for a Reload returns the reloaded table
C11_Witness ==
  \E t, u \in Threads :
    /\ th[t].op = "GetConfig" /\ th[t].pc = "unlock"
    /\ th[u].op = "Reload" /\ th[u].pc = "idle" /\ th[u].err = ErrNone
    /\ th[t].rcfg = th[u].cfg
    /\ th[t].seen = {}

\* C13: while a writer is inside its critical section no other call is inside
\* one, and a GetActive call fails with NoActiveTarget or returns a target
\* that was the active one at some instant of the call.
C13_LockDiscipline ==
  /\ \A t, u \in Threads :
       (t # u /\ th[t].op \in Writers /\ InCS(t)) => ~InCS(u)
  /\ \A t \in Threads :
       (th[t].op = "GetActive" /\ th[t].pc = "unlock")
         => \/ th[t].err = ErrNoActive
            \/ th[t].err = ErrNone /\ th[t].ret # NoAPI /\ th[t].ret \in th[t].seen

\* a GetActive call returns a target while a writer waits for the lock, the
\* active target having changed between the call's begin and its read
C13_Witness ==
  \E t, u \in Threads :
    /\ th[t].op = "GetActive" /\ th[t].pc = "unlock" /\ th[t].err = ErrNone
    /\ Cardinality(th[t].seen) > 1
    /\ th[u].op \in Writers /\ th[u].pc = "lock"

(***************************************************************************)
(* Claims about the routing table and its callers' values (AliasSpec)      *)
(***************************************************************************)
\* C12: what the accessors return changes only through a mutator call: a
\* write to a value an accessor returned, or to the configuration object
\* handed to the constructor or to Reload, changes nothing the accessors
\* return later.
C12_NoAliasing ==
  [][(call'.n = call.n)
       => /\ GetActiveAPI(CfgNext) = GetActiveAPI(Cfg)
          /\ CfgNext = Cfg]_vars

(***************************************************************************)
(* Claims about the forward engine (FwdSpec)                               *)
(***************************************************************************)
\* the call is over: it is about to return or has returned
FwdOver == fe_pc \in {"done", "idle"} /\ fe_stats.total > 0

\* an attempt answered with one of the statuses 500, 502, 503, 504
RetryableStatus(o) == o.kind = "status" /\ o.code \in {500, 502, 503, 504}

\* an attempt that failed retryably: such a status, or a transport error of
\* the transient class
FailedRetryably(o) ==
  \/ RetryableStatus(o)
  \/ o.kind = "neterr"
       /\ o.msg \in {"dial tcp: connection refused", "context deadline exceeded"}

\* C14: with retryCount = n >= 1 and ctx not cancelled, when the upstream
\* answered the first k < n attempts with a status of 500, 502, 503, 504 and
\* attempt k+1 with another status, the call is over after these k+1 attempts
\* and returns that response without error; and a call is not over after
\* fewer than n attempts that were all answered with such statuses.
C14_RetryThenSuccess ==
  (fe_retryCount >= 1 /\ fe_log # <<>> /\ ~ctx_done
     /\ \A i \in 1..(Len(fe_log) - 1) : RetryableStatus(fe_log[i]))
    => /\ (fe_log[Len(fe_log)].kind = "status" /\ ~RetryableStatus(fe_log[Len(fe_log)]))
            => /\ FwdOver
               /\ Len(fe_log) <= fe_retryCount
               /\ fe_result = [resp |-> fe_log[Len(fe_log)].code, err |-> NoFwdErr]
       /\ (RetryableStatus(fe_log[Len(fe_log)]) /\ Len(fe_log) < fe_retryCount)
            => ~FwdOver

\* retryCount = 3, two 500s, then 200: the response is returned after three
\* attempts
C14_Witness ==
  /\ fe_retryCount = 3
  /\ fe_pc = "done"
  /\ ~ctx_done
  /\ fe_log = <<Status(500), Status(500), Status(200)>>
  /\ fe_result.resp = 200

C16_AtLeastOneAttempt ==
  FwdOver
    => /\ Len(fe_log) >= 1
       /\ Len(fe_log) <= (IF fe_retryCount > 1 THEN fe_retryCount ELSE 1)
       /\ (fe_retryCount <= 0 /\ fe_log[1].kind = "status" /\ ~RetryableStatus(fe_log[1]))
            => fe_result.resp = fe_log[1].code

\* C17: an attempt answered with a status other than 500, 502, 503, 504 ends
\* the call: that response is returned without error and no retry is counted;
\* an attempt answered with one of the four is not returned as the response.
C17_FinalStatus ==
  [][(fe_pc = "attempt" /\ Len(fe_log') = Len(fe_log) + 1
        /\ fe_log'[Len(fe_log')].kind = "status")
       => IF fe_log'[Len(fe_log')].code \in {500, 502, 503, 504}
          THEN fe_result'.resp = 0 /\ fe_pc' \in {"backoff", "done"}
          ELSE /\ fe_pc' = "done"
               /\ fe_result' = [resp |-> fe_log'[Len(fe_log')].code, err |-> NoFwdErr]
               /\ fe_stats'.retries = fe_stats.retries
               /\ fe_stats'.ok = fe_stats.ok + 1]_vars

\* a single 404 came back and was returned with zero retries
C17_Witness ==
  /\ fe_retryCount = 3
  /\ fe_pc = "done"
  /\ fe_log = <<Status(404)>>
  /\ fe_result.resp = 404
  /\ fe_stats.retries = 0

(***************************************************************************)
(* Claims about the listener's Start and Stop (LsnSpec)                    *)
(***************************************************************************)
\* goroutine g's call of op passes its test of s.isRunning in this step
Checks(g, op) == lt[g].op = op /\ lt[g].pc = "check" /\ lt'[g].pc # "check"

\* goroutine g's call of op gets its result res in this step
Gets(g, op, res) == lt[g].op = op /\ lt[g].res # res /\ lt'[g].res = res

\* goroutine g's call of op returns in this step
Returns(g, op) == lt[g].op = op /\ lt[g].pc = "unlock" /\ lt'[g].pc = "idle"

\* what a refused call leaves alone
ListenerUnchanged == LState' = LState /\ isRunning' = isRunning /\ sock' = sock

\* a Start that found the listener not Stopped is refused with AlreadyRunning
\* and changes nothing, up to its return; a Start succeeds only from Stopped
StartContract ==
  \A g \in LThreads :
    /\ Checks(g, "start") /\ LState # "Stopped"
         => lt'[g].res = "AlreadyRunning" /\ lt'[g].pc = "unlock" /\ ListenerUnchanged
    /\ Returns(g, "start") /\ lt[g].res = "AlreadyRunning" => ListenerUnchanged
    /\ Checks(g, "start") /\ lt'[g].pc = "listen" => LState = "Stopped"
    /\ Gets(g, "start", "ok") => ~isRunning /\ isRunning'

\* two Start calls, made at the same time on a listener that was Stopped,
\* have both returned
RacedStarts ==
  /\ \A g \in LThreads : lt[g].op = "start" /\ lt[g].pc = "idle" /\ ~lt[g].b0
  /\ \E g \in LThreads : lt[g].ov

Succeeded == {g \in LThreads : lt[g].res = "ok"}

\* C18 as stated: Start succeeds only when the listener is Stopped; in any
\* other state it returns AlreadyRunning and leaves the state and the socket
\* unchanged; of two Start calls racing on a Stopped listener exactly one
\* succeeds.
C18_ExactlyOneStart ==
  [][/\ StartContract
     /\ RacedStarts' => Cardinality(Succeeded') = 1]_vars

\* C18 amended: Start succeeds only when the listener is Stopped; in any other
\* state it returns AlreadyRunning and leaves the state and the socket
\* unchanged; of two Start calls racing on a Stopped listener at most one
\* succeeds, the other getting AlreadyRunning or the bind error, and exactly
\* one succeeds unless the port could not be bound.
C18_StartExclusive ==
  [][/\ StartContract
     /\ RacedStarts' =>
          /\ Cardinality(Succeeded') <= 1
          /\ \A g \in LThreads :
               lt'[g].res \in {"ok", "AlreadyRunning", "ListenFailed"}
          /\ (\A g \in LThreads : lt'[g].res # "ListenFailed")
               => Cardinality(Succeeded') = 1]_vars

\* two racing Start calls have returned, one with success and one with
\* AlreadyRunning
C18_Witness ==
  /\ RacedStarts
  /\ \E g, h \in LThreads : lt[g].res = "ok" /\ lt[h].res = "AlreadyRunning"
  /\ isRunning

\* C19: Stop succeeds only when the listener is Running; called when it is
\* not running it returns NotRunning and changes nothing, up to its return;
\* when a successful Stop returns, IsRunning() is false.
C19_StopContract ==
  [][\A g \in LThreads :
       /\ Checks(g, "stop") /\ LState # "Running"
            => /\ lt'[g].res = "NotRunning" /\ lt'[g].pc = "unlock"
               /\ ListenerUnchanged /\ inflight' = inflight
       /\ Returns(g, "stop") /\ lt[g].res = "NotRunning" => ListenerUnchanged
       /\ Checks(g, "stop") /\ lt'[g].pc = "shutdown" => LState = "Running"
       /\ Gets(g, "stop", "ok") => isRunning /\ ~isRunning'
       /\ Returns(g, "stop") /\ lt[g].res = "ok" => ~isRunning']_vars

\* a Stop has returned NotRunning on a listener that another Stop had stopped
C19_Witness ==
  \E g, h \in LThreads :
    /\ lt[g].op = "stop" /\ lt[g].res = "NotRunning" /\ lt[g].pc = "idle"
    /\ lt[h].op = "stop" /\ lt[h].res = "ok" /\ lt[h].pc = "idle"
    /\ ~isRunning

\* the moves of the listener's state machine
Chain ==
  {<<"Stopped", "Starting">>, <<"Starting", "Running">>,
   <<"Running", "Stopping">>, <<"Stopping", "Stopped">>}

\* C20: the listener's state only moves along Stopped -> Starting -> Running
\* -> Stopping -> Stopped, and a Stop called in state Running ends its drain
\* with the listener Stopped, whether or not requests are still in flight.
C20_StopEndsStopped ==
  [][/\ LState' # LState => <<LState, LState'>> \in Chain
     /\ \A g \in LThreads :
          lt[g].op = "stop" /\ lt[g].pc = "drain" /\ lt'[g].pc = "unlock"
            => LState' = "Stopped"]_vars

(***************************************************************************)
(* Claims about a request through the listener (DrainSpec, ReqSpec)        *)
(***************************************************************************)
\* a Stop is in its shutdown while the handler of a request accepted before
\* Stop was called waits for the lock Stop holds
DrainBlocked ==
  /\ HandlerBlocked /\ ~r_at.stop
  /\ \E g \in LThreads : lt[g].op = "stop" /\ lt[g].pc \in {"shutdown", "drain"}

\* the last outbound call of the request
LastOut == outLog[Len(outLog)]

\* the request is over, the upstream answered it and nothing failed after
Relayed ==
  /\ r_pc = "done" /\ outLog # <<>>
  /\ LastOut.o.kind = "status"
  /\ errorCount = r_at.errors

\* C21: with an upstream that answers within the drain window, a request
\* accepted before Stop was called completes with the upstream's response and
\* Stop returns without error, wherever the handler is when Stop begins; Stop
\* and the handler never wait for each other until the window expires.
C21_DrainCompletes ==
  /\ \A g \in LThreads :
       lt[g].res = "ShutdownFailed" /\ lt[g].pc = "unlock" => r_at.stop
  /\ ~DrainBlocked
  /\ Relayed => rw.status = LastOut.o.code /\ rw.body = <<"upstream body">>

\* the active target cannot be resolved
Unresolvable(cfg) == cfg.ActiveAPI = "" \/ ~HasID(cfg.APIs, cfg.ActiveAPI)

\* the text contains "no active API": it is handleRequest's text for a failed
\* resolution, which begins with these words
HasNoActiveAPI(text) ==
  \E e \in {"no active API", ErrActiveNotFound} : text = "no active API" \o " configured: " \o e

\* C22: a request handled while no active target can be resolved is answered
\* 502 with a body containing "no active API", the error counter grows by
\* exactly one and no outbound call is made.
C22_NoActiveIs502 ==
  [][r_pc = "resolve" /\ r_pc' # "resolve" /\ Unresolvable(SrvCfg)
       => /\ r_pc' = "done"
          /\ rw'.status = 502 /\ rw'.extra = 0
          /\ Len(rw'.body) = 1 /\ HasNoActiveAPI(rw'.body[1])
          /\ errorCount' = r_at.errors + 1
          /\ outLog' = <<>>]_vars

\* a request was answered 502 "no active API" without any outbound call
C22_Witness ==
  /\ r_pc = "done"
  /\ Unresolvable(SrvCfg)
  /\ rw.status = 502 /\ rw.body # <<>> /\ HasNoActiveAPI(rw.body[1])
  /\ errorCount = r_at.errors + 1
  /\ outLog = <<>>

\* C23: a request whose handling failed got exactly one response, with status
\* 502 and a text body, and the error counter grew by exactly one.
C23_FailureIsOne502 ==
  r_pc = "done" /\ errorCount # r_at.errors
    => /\ errorCount = r_at.errors + 1
       /\ rw.status = 502 /\ rw.ctype = "text/plain"
       /\ rw.extra = 0 /\ Len(rw.body) = 1

\* the upstream's outcome is a transient failure: a transport error the
\* engine retries, or one of the statuses 500, 502, 503, 504
Transient(o) ==
  \/ o.kind = "status" /\ o.code \in {500, 502, 503, 504}
  \/ o.kind = "neterr" /\ \E netErr \in networkErrors : Contains(o.msg, netErr)

Max(a, b) == IF a > b THEN a ELSE b

\* C24: the client of a forwarded request sees the upstream's final response,
\* or a single 502 after the target's retry count (at least one) of attempts
\* all failed transiently or after a failure that is not transient; a
\* transient failure of one attempt is never relayed.
C24_RetriedInsideEngine ==
  r_pc = "done" /\ outLog # <<>>
    => \/ /\ ~Transient(LastOut.o) /\ LastOut.o.kind = "status"
          /\ rw.status = LastOut.o.code
       \/ /\ ~Transient(LastOut.o) /\ LastOut.o.kind = "neterr"
          /\ rw.status = 502 /\ rw.ctype = "text/plain"
       \/ /\ \A i \in 1..Len(outLog) : Transient(outLog[i].o)
          /\ Len(outLog) = Max(fe_retryCount, 1)
          /\ rw.status = 502 /\ rw.ctype = "text/plain"

\* C25: once UpdateConfig(target) has returned without error, a request
\* accepted afterwards is forwarded to the updated target, and the listener
\* stays running on its socket.
C25_UpdateConfigApplies ==
  [][/\ r_pc = "forward" /\ r_pc' # "forward" /\ r_at.upd # NoAPI
          => /\ LastOut'.url = ServerTargetURL(r_at.upd, r_in)
             /\ LastOut'.key = r_at.upd.APIKey
     /\ upd' # upd => isRunning' /\ sock' = sock]_vars

\* C26: the outbound URL is the target's base URL with the inbound path and
\* query concatenated onto it, and it is the URL the forward engine builds
\* for the same request and target.
C26_SameOutboundURL ==
  [][r_pc = "forward" /\ r_pc' # "forward"
       => /\ LastOut'.url = r_api.URL \o URLString([host |-> "", path |-> r_in.path,
                                                    query |-> r_in.query])
          /\ LastOut'.url = EngineTargetURL(r_api, r_in)
          /\ LastOut'.method = r_in.method]_vars

(***************************************************************************)
(* Claims about the listener's handler and the routing table (SrvSpec)     *)
(***************************************************************************)
\* C3: the outbound call of a request is made against the URL and the
\* credential of the target the handler resolved, whatever mutators complete
\* between the resolution and the call.
C3_NoMidFlightRedirect ==
  (h_pc = "idle" /\ resp.out # NoOut)
    => (resp.out.URL = h_api.URL /\ resp.out.APIKey = h_api.APIKey)

\* a request was forwarded to the target it resolved although a Switch had made
\* another target the active one by the time of the outbound call
C3_Witness ==
  /\ h_pc = "idle"
  /\ resp.out # NoOut
  /\ resp.out.URL = h_api.URL
  /\ resp.activeAtSend # NoAPI
  /\ resp.activeAtSend.ID # h_api.ID
  /\ lastOK.op = "Switch" /\ lastOK.id = resp.activeAtSend.ID

\* C10: after Remove(id) of the active target, and until a mutator succeeds
\* again, the active id is empty, GetActive fails with NoActiveTarget, and a
\* request the listener handles gets a 502 whose body contains "no active API"
\* and no outbound call. (The claim lets the state last until the next
\* successful Switch; this is the part of it up to the next successful mutator.)
C10_FailClosedAfterRemove ==
  (lastOK.op = "Remove" /\ lastOK.wasActive)
    => /\ Cfg.ActiveAPI = ""
       /\ GetActiveAPI(Cfg).err = ErrNoActive
       /\ h_fresh => /\ h_pc = "idle"
                     /\ resp.status = 502
                     /\ resp.body = "no active API configured"
                     /\ resp.out = NoOut

(***************************************************************************)
(* Claims about the service lifecycle (SeqLifeSpec, LifeSpec)              *)
(***************************************************************************)
\* GetDaemonStatus answered in this step
StatusReturned == status'.n # status.n

\* C4: whatever start, stop and status calls and daemon exits came
\* before, GetDaemonStatus reports Running exactly when a daemon process is
\* alive, and the PID it reports is that of a live daemon.
C4_StatusTruthful ==
  [][StatusReturned
       => /\ status'.running <=> \E p \in PIDs : Alive(p)
          /\ status'.running => Alive(status'.pid)]_vars

\* C5: when the start attempts of two CLI processes have both returned, no
\* process having exited or been signalled, at most one of them succeeded and
\* the other got AlreadyRunning; the PID record names a live daemon and no
\* other daemon process is alive.
C5_OneStartWins ==
  ( /\ \A c \in CLIs : cli[c].op = "start" /\ cli[c].pc = "done"
    /\ \A p \in PIDs : procs[p] # "dead"
    /\ termSent = {} )
    => /\ Cardinality({ c \in CLIs : cli[c].res = "ok" }) <= 1
       /\ \A c \in CLIs : cli[c].res \in {"ok", "AlreadyRunning"}
       /\ pidFile.exists /\ Alive(pidFile.pid)
       /\ \A p \in PIDs : Alive(p) => p = pidFile.pid

\* the CLI call of c passes its GetDaemonStatus in this step
Probes(c, op) == cli[c].op = op /\ cli[c].pc = "check" /\ cli'[c].pc # "check"

\* the PID record names a process that is alive, or one that is not
RecordLive == pidFile.exists /\ Alive(pidFile.pid)
RecordStale == pidFile.exists /\ ~Alive(pidFile.pid)

\* C27: a start called while the PID record names a live process fails with
\* AlreadyRunning naming the recorded PID, spawns no process and leaves the
\* record as it is.
C27_StartRefusedWhenLive ==
  [][\A c \in CLIs :
       Probes(c, "start") /\ RecordLive
         => /\ cli'[c].pc = "done" /\ cli'[c].res = "AlreadyRunning"
            /\ cli'[c].pid = pidFile.pid
            /\ procs' = procs
            /\ pidFile' = pidFile]_vars

\* the second of two starts has failed with AlreadyRunning naming the daemon
\* the first one started
C27_Witness ==
  \E c, d \in CLIs :
    /\ c # d
    /\ cli[c].op = "start" /\ cli[c].pc = "done" /\ cli[c].res = "ok"
    /\ cli[d].op = "start" /\ cli[d].pc = "done" /\ cli[d].res = "AlreadyRunning"
    /\ RecordLive /\ cli[d].pid = pidFile.pid
    /\ \A p \in PIDs : p # pidFile.pid => procs[p] = "none"

\* C28: GetDaemonStatus returns without error: NotRunning with PID 0 when no
\* record exists; NotRunning with PID 0, the record deleted, when the record
\* names a process that does not exist; Running with the recorded PID, the
\* record left in place, when it names a live process.
C28_StatusCases ==
  [][\A c \in CLIs :
       /\ Probes(c, "status") /\ ~pidFile.exists
            => /\ ~status'.running /\ status'.pid = 0
               /\ cli'[c].pc = "done" /\ cli'[c].res = "ok"
               /\ pidFile' = pidFile
       /\ Probes(c, "status") /\ RecordStale
            => /\ ~status'.running /\ status'.pid = 0
               /\ cli'[c].pc = "cleanup"
       /\ cli[c].op = "status" /\ cli[c].pc = "cleanup" /\ cli'[c].pc # "cleanup"
            => /\ cli'[c].pc = "done" /\ cli'[c].res = "ok"
               /\ pidFile' = NoRecord
               /\ status' = status
       /\ Probes(c, "status") /\ RecordLive
            => /\ status'.running /\ status'.pid = pidFile.pid
               /\ cli'[c].pc = "done" /\ cli'[c].res = "ok"
               /\ pidFile' = pidFile]_vars

\* GetDaemonStatus has found the record stale, answers NotRunning and is about
\* to delete it
C28_Witness ==
  \E c \in CLIs :
    /\ cli[c].op = "status" /\ cli[c].pc = "cleanup"
    /\ RecordStale
    /\ ~status.running /\ status.pid = 0

\* C29: a stop on a stale record returns NotRunning, sends no signal and leaves
\* no record; a start on a stale record removes it, goes on as with no record
\* and ends with the record naming the daemon it has just started.
C29_StaleHealed ==
  [][\A c \in CLIs :
       /\ (Probes(c, "start") \/ Probes(c, "stop")) /\ RecordStale
            => cli'[c].pc = "cleanup" /\ termSent' = termSent /\ procs' = procs
       /\ cli[c].op = "stop" /\ cli[c].pc = "cleanup" /\ cli'[c].pc # "cleanup"
            => /\ cli'[c].pc = "done" /\ cli'[c].res = "NotRunning"
               /\ pidFile' = NoRecord
               /\ termSent' = termSent
       /\ cli[c].op = "start" /\ cli[c].pc = "cleanup" /\ cli'[c].pc # "cleanup"
            => cli'[c].pc = "fork" /\ pidFile' = NoRecord
       /\ cli[c].op = "start" /\ cli[c].pc = "fork" /\ cli'[c].pc # "fork"
            => /\ cli'[c].pc = "write"
               /\ procs[cli'[c].pid] = "none" /\ procs'[cli'[c].pid] = "boot"
       /\ cli[c].op = "start" /\ cli[c].pc = "write" /\ cli'[c].pc # "write"
            => /\ cli'[c].pc = "done" /\ cli'[c].res = "ok"
               /\ pidFile' = [exists |-> TRUE, pid |-> cli[c].pid]]_vars

\* a start has found the record stale and is about to remove it
C29_Witness ==
  \E c \in CLIs :
    /\ cli[c].op = "start" /\ cli[c].pc = "cleanup"
    /\ RecordStale

\* C30: StopDaemon and SendSignal called when no PID record exists return a
\* not-running error, deliver no signal and create no record.
C30_NoRecordNoSignal ==
  [][\A c \in CLIs :
       (Probes(c, "stop") \/ Probes(c, "sendsig")) /\ ~pidFile.exists
         => /\ cli'[c].pc = "done" /\ cli'[c].res = "NotRunning"
            /\ termSent' = termSent
            /\ procs' = procs
            /\ pidFile' = pidFile]_vars

\* a stop and a SendSignal have both returned NotRunning where no daemon was
\* ever started
C30_Witness ==
  \E c, d \in CLIs :
    /\ cli[c].op = "stop" /\ cli[c].pc = "done" /\ cli[c].res = "NotRunning"
    /\ cli[d].op = "sendsig" /\ cli[d].pc = "done" /\ cli[d].res = "NotRunning"
    /\ ~pidFile.exists /\ termSent = {}
    /\ \A p \in PIDs : procs[p] = "none"

\* C32: CleanupPIDFile on an existing record deletes it and returns no error;
\* with no record it returns the 'does not exist' error, so that a second
\* call right after a first always returns that error.
C32_CleanupNotIdempotent ==
  [][\A c \in CLIs :
       (cli[c].pc = "unlink" /\ cli'[c].pc = "done")
         => /\ ~pidFile'.exists
            /\ cli'[c].res = (IF pidFile.exists THEN "ok" ELSE "NotExist")
            /\ CleanupPIDFile(pidFile') = "NotExist"]_vars

C32_Witness ==
  /\ cli["c1"] = [op |-> "cleanup", pc |-> "done", pid |-> 0, res |-> "NotExist"]
  /\ pidFile = NoRecord
  /\ \E p \in PIDs : procs[p] = "serving"

\* C33: when the write of the PID record fails after the child was spawned,
\* start kills the child and returns an error: the child of a failed start is
\* not running, whatever the record says.
C33_FailedStartKillsChild ==
  [][\A c \in CLIs :
       /\ (cli[c].pc = "write" /\ cli'[c].pc = "done" /\ cli'[c].res # "ok")
            => /\ cli'[c].res = "WriteFailed"
               /\ ~Alive(cli[c].pid)'
               /\ pidFile' = pidFile
       /\ (cli'[c].op = "start" /\ cli'[c].pc = "done" /\ cli'[c].res = "WriteFailed")
            => procs'[cli'[c].pid] = "dead"]_vars

C33_Witness ==
  \E c \in CLIs :
    /\ cli[c].op = "start" /\ cli[c].pc = "done" /\ cli[c].res = "WriteFailed"
    /\ procs[cli[c].pid] = "dead"
    /\ pidFile = [exists |-> TRUE, pid |-> cli[c].pid]

\* C38: GetDaemonStatus on a record that is not a valid integer returns
\* without error NotRunning with PID 0 and removes the record; a start that
\* follows goes on to spawn the daemon and leaves a record with a valid PID.
C38_GarbledRecordCleaned ==
  [][\A c \in CLIs :
       /\ (pidFile = Garbled /\ cli[c].pc = "check" /\ cli'[c].pc # "check")
            => /\ cli[c].op = "status"
                    => (cli'[c].res = "ok" /\ ~status'.running /\ status'.pid = 0)
               /\ cli[c].op = "start" => cli'[c].pc \in {"fork", "cleanup"}
               /\ cli'[c].pc = "cleanup" \/ ~pidFile'.exists
       /\ (cli[c].op = "start" /\ cli[c].pc = "write" /\ cli'[c].res = "ok")
            => readPIDFile(pidFile').err = FALSE]_vars

\* C31: a stop that found the daemon Running sends SIGTERM to the recorded
\* PID and then deletes the record, whether or not the process has exited;
\* a stop that returns without error leaves no record, and a stop whose signal
\* was delivered returns without error.
C31_StopSignalsAndRemoves ==
  [][\A c \in CLIs :
       cli[c].op = "stop" =>
         /\ (cli[c].pc = "check" /\ cli'[c].pc = "signal")
              => pidFile.exists /\ cli'[c].pid = pidFile.pid
         /\ (cli[c].pc = "signal" /\ cli'[c].pc = "remove")
              => cli[c].pid \in termSent'
         /\ (cli[c].pc = "remove" /\ cli'[c].pc = "done")
              => ~pidFile'.exists /\ cli'[c].res = "ok"
         /\ (cli[c].pc # "done" /\ cli'[c].pc = "done" /\ cli'[c].res = "ok")
              => ~pidFile'.exists]_vars

\* C34: a switch to an existing target issued from the CLI while a daemon is
\* running and serving leads to a daemon that serves with the switched-to id
\* as its active target: the switch does not end with the old daemon still
\* serving the old target, or with no daemon serving at all.
C34_SwitchRestartsDaemon ==
  (sw.phase = "status" /\ sw.was)
    ~> (\E p \in PIDs : procs[p] = "serving" /\ loaded[p] = sw.id)

(***************************************************************************)
(* The engine: cancellation, the request body, final errors, counters      *)
(* (FwdSpec)                                                               *)
(***************************************************************************)

\* C35: when ctx is done while ForwardRequest waits in the backoff before
\* attempt i > 0, the call returns ctx's error, attempt i and the later ones
\* are not made (the attempts made are 0..i-1), and the call is counted as one
\* failure, once.
C35_CancelInBackoff ==
  [][/\ (fe_pc = "backoff" /\ ctx_done)
          => /\ fe_pc' = "done"
             /\ fe_result' = [resp |-> 0, err |-> [kind |-> ErrCanceled, wraps |-> NoOutcome]]
             /\ fe_attempt > 0 /\ Len(fe_log) = fe_attempt
             /\ fe_log' = fe_log
             /\ fe_stats' = [fe_stats EXCEPT !.failed = @ + 1]
     /\ (fe_pc = "done" /\ fe_result.err.kind = ErrCanceled)
          => /\ fe_log' = fe_log
             /\ fe_stats' = fe_stats]_vars

C35_Witness ==
  /\ fe_pc = "done"
  /\ fe_result.err.kind = ErrCanceled
  /\ fe_attempt = 2 /\ Len(fe_log) = 2
  /\ fe_stats.failed = 1 /\ fe_stats.retries = 2

\* C36: every upstream attempt of a call carries the body of the inbound
\* request: the body sent on attempt i > 0 equals the body sent on attempt 0.
C36_SameBodyEachAttempt ==
  \A i \in 1..Len(fe_body.sent) :
    /\ fe_log[i].kind = "status" => fe_body.sent[i] = fe_body.in
    /\ fe_log[i].kind = "status" /\ fe_log[1].kind = "status"
         => fe_body.sent[i] = fe_body.sent[1]

\* C37: a transport error outside the transient class ends the call with
\* that attempt, and the error "max retries exceeded" is returned only after
\* max(retryCount, 1) attempts (stated for retryCount >= 1; a retryCount
\* below 1 is the case of C16).
C37_FinalIsNotExhausted ==
  /\ (fe_log # <<>> /\ fe_log[Len(fe_log)].kind = "neterr"
        /\ ~shouldRetry(0, fe_log[Len(fe_log)].msg))
       => fe_pc \in {"done", "idle"}
  /\ (fe_pc = "done" /\ fe_retryCount >= 1 /\ fe_result.err.kind = ErrMaxRetries)
       => Len(fe_log) = Max(fe_retryCount, 1)

\* C40: the counters never decrease; a call adds one to the total when it
\* starts and one to successes or failures when it ends, so that with no call
\* in progress total = successes + failures; and for retryCount = n >= 1,
\* retries <= (n - 1) * total.
C40_Counters ==
  [][/\ \A k \in DOMAIN fe_stats : fe_stats'[k] >= fe_stats[k]
     /\ fe_stats'.total = fe_stats.total + (IF fe_pc = "idle" /\ fe_pc' # "idle" THEN 1 ELSE 0)
     /\ fe_stats'.ok + fe_stats'.failed =
          fe_stats.ok + fe_stats.failed + (IF fe_pc # "done" /\ fe_pc' = "done" THEN 1 ELSE 0)
     /\ fe_pc' = "idle" => fe_stats'.total = fe_stats'.ok + fe_stats'.failed
     /\ fe_retryCount >= 1
          => fe_stats'.retries <= (fe_retryCount - 1) * fe_stats'.total]_vars

C40_Witness ==
  /\ fe_pc = "idle"
  /\ fe_stats = [total |-> 2, ok |-> 1, failed |-> 1, retries |-> 3]

(***************************************************************************)
(* The listener's counters (StatsSpec)                                     *)
(***************************************************************************)

\* C39 as stated: errorCount <= requestCount in every state, and every
\* snapshot GetStats returns has ErrorCount <= RequestCount.
C39_SnapshotOrdered ==
  /\ errorCount <= requestCount
  /\ gs_pc = "done" => gs_snap.ErrorCount <= gs_snap.RequestCount

\* C39, amended: a handled request adds one to the request counter when it is
\* accepted and at most one to the error counter afterwards, so errorCount <=
\* requestCount in every state; a snapshot GetStats returns holds for each
\* counter a value the counter had during the call, its ErrorCount is at most
\* the request counter as it was when ErrorCount was loaded, and ErrorCount <=
\* RequestCount when no request was accepted between the two loads.
C39_CountersOrdered ==
  [][/\ errorCount' <= requestCount'
     /\ requestCount' = requestCount + (IF r_pc' = "resolve" /\ r_pc # "resolve" THEN 1 ELSE 0)
     /\ errorCount' \in {errorCount, errorCount + 1}
     /\ r_pc' # "idle" => errorCount' \in {r_at'.errors, r_at'.errors + 1}
     /\ gs_pc' = "done"
          => /\ gs_snap'.RequestCount <= gs_at'
             /\ gs_snap'.ErrorCount <= gs_at'
             /\ gs_at' <= requestCount'
             /\ gs_snap'.ErrorCount <= errorCount'
             /\ gs_at' = gs_snap'.RequestCount
                  => gs_snap'.ErrorCount <= gs_snap'.RequestCount]_vars

C39_Witness ==
  /\ gs_pc = "done"
  /\ gs_at > gs_snap.RequestCount
  /\ gs_snap.ErrorCount > gs_snap.RequestCount
  /\ r_pc \in {"forward", "copy"}

====
